---- MODULE Spec2Model ----
(***************************************************************************)
(* A model of IndexeddbStore, the IndexedDB backed CryptoStore of          *)
(* matrix-sdk-crypto (store/indexeddb.rs).                                 *)
(*                                                                         *)
(* The durable state is the IndexedDB database: one function (key ->       *)
(* value) per object store.  The in-memory state is the store instance:    *)
(* account_info, pickle_key, session_cache and the two tracked-user        *)
(* caches.  Every async method is a process that moves through its await   *)
(* points; several input may be in flight on the one store instance.       *)
(*                                                                         *)
(* Strings that are joined into composite keys are sequences of character  *)
(* codes, so that key formatting and key ranges are computed as the code   *)
(* computes them.                                                          *)
(***************************************************************************)
EXTENDS Integers, Sequences, FiniteSets, TLC

VARIABLES
    db,                        \* IdbDatabase: object store name -> (key -> value)
    account_info,              \* Option<AccountInfo>
    pickle_key,                \* PickleKey of this store instance
    session_cache,             \* SessionStore: sender key -> shared handle
    tracked_users_cache,       \* DashSet<UserId>
    users_for_key_query_cache, \* DashSet<UserId>
    pc,                        \* per call: the await point it is at
    op,                        \* per call: the method that is running
    arg,                       \* per call: its argument
    tx,                        \* per call: the IdbTransaction it opened
    tmp,                       \* per call: its local variables
    ret,                       \* per call: what it returned
    input                      \* SpecChanges: the Changes of the caller, then the result it got

vars == <<db, account_info, pickle_key, session_cache, tracked_users_cache,
          users_for_key_query_cache, pc, op, arg, tx, tmp, ret, input>>

memory == <<account_info, pickle_key, session_cache, tracked_users_cache,
            users_for_key_query_cache>>

-----------------------------------------------------------------------------
(* Values *)

None == <<>>
Some(x) == <<x>>
IsSome(o) == Len(o) > 0
Unwrap(o) == o[1]

Ok(v) == [kind |-> "ok", val |-> v]
Err(e) == [kind |-> "err", val |-> e]
Panic == [kind |-> "panic", val |-> "not yet implemented"]
NoRet == [kind |-> "none", val |-> ""]

\* the input in flight on the store instance: p1 runs any method, p2 is a second
\* caller of get_sessions that overlaps it
Procs == {"p1", "p2"}
Callers == {"p1"}

\* ':' and ';', the delimiter of composite keys and the character after it
Colon == 58
Semi == 59

DEFAULT_PICKLE == "DEFAULT_PICKLE_PASSPHRASE_123456"

CORE == "core"
SESSION == "session"
INBOUND_GROUP_SESSIONS == "inbound_group_sessions"
OUTBOUND_GROUP_SESSIONS == "outbound_group_sessions"
TRACKED_USERS == "tracked_users"
OLM_HASHES == "olm_hashes"
DEVICES == "devices"
IDENTITIES == "identities"
OUTGOING_SECRET_REQUESTS == "outgoing_secret_requests"
UNSENT_SECRET_REQUESTS == "unsent_secret_requests"
SECRET_REQUESTS_BY_INFO == "secret_requests_by_info"
ACCOUNT == "account"
PRIVATE_IDENTITY == "private_identity"

\* the object stores created by the upgrade to version 1
ObjectStores ==
    {CORE, SESSION, INBOUND_GROUP_SESSIONS, OUTBOUND_GROUP_SESSIONS, TRACKED_USERS,
     OLM_HASHES, DEVICES, IDENTITIES, OUTGOING_SECRET_REQUESTS,
     UNSENT_SECRET_REQUESTS, SECRET_REQUESTS_BY_INFO}

EmptyDb == [s \in ObjectStores |-> <<>>]

\* format!("{}:{}", a, b)
Join(a, b) == a \o <<Colon>> \o b

\* lexicographic order of two strings, as IndexedDB orders string keys
RECURSIVE StrLeq(_, _)
StrLeq(a, b) ==
    IF a = <<>> THEN TRUE
    ELSE IF b = <<>> THEN FALSE
    ELSE IF a[1] # b[1] THEN a[1] < b[1]
    ELSE StrLeq(Tail(a), Tail(b))

\* make_range with the delimiter left out of the lower end
MakeRangeNoDelimiter(key) == [lower |-> key, upper |-> key \o <<Semi>>]

\* IdbKeyRange::bound(lower, upper): both ends are included
make_range(key) == [lower |-> key \o <<Colon>>, upper |-> key \o <<Semi>>]

\* a range with the upper end left out
InRangeLowerOnly(k, range) == StrLeq(range.lower, k)

InRange(k, range) == StrLeq(range.lower, k) /\ StrLeq(k, range.upper)

\* pickle(mode): the value encrypted under the pickle key
Pickle(x, key) == [ct |-> x, key |-> key]

\* from_pickle(pickle, mode): fails unless the key is the one it was encrypted under
CanUnpickle(p, key) == p.key = key
Unpickle(p, key) == p.ct

\* JsValue::from_serde / into_serde::<T>(): a tagged JSON value
Serde(type, x) == [type |-> type, json |-> x]
CanDeser(type, v) == v.type = type
Deser(v) == v.json

AccountInfoOf(account) ==
    [user_id |-> account.user_id, device_id |-> account.device_id,
     identity_keys |-> account.identity_keys]

\* the key/value operations of an object store
Put(store, key, val) == (key :> val) @@ store
Delete(store, key) == [k \in DOMAIN store \ {key} |-> store[k]]
Get(store, key) == IF key \in DOMAIN store THEN Some(store[key]) ELSE None

-----------------------------------------------------------------------------
(* Changes and what save_changes writes for them *)

NoChanges ==
    [account |-> None, private_identity |-> None, sessions |-> <<>>,
     inbound_group_sessions |-> <<>>, outbound_group_sessions |-> <<>>,
     devices |-> [new |-> <<>>, changed |-> <<>>, deleted |-> <<>>],
     identities |-> [new |-> <<>>, changed |-> <<>>],
     message_hashes |-> <<>>, key_requests |-> <<>>]

\* SecretInfo::as_key(): a type prefix joined to the name of the secret
AsKey(info) == Join(info.type, info.name)

\* the (flag, object store) table of save_changes and the stores it selects
StoreFlags(c) ==
    << <<IsSome(c.account) \/ IsSome(c.private_identity), CORE>>,
       <<c.sessions # <<>>, SESSION>>,
       <<c.devices.new # <<>> \/ c.devices.changed # <<>> \/ c.devices.deleted # <<>>,
         DEVICES>>,
       <<c.identities.new # <<>> \/ c.identities.changed # <<>>, IDENTITIES>>,
       <<c.inbound_group_sessions # <<>>, INBOUND_GROUP_SESSIONS>>,
       <<c.outbound_group_sessions # <<>>, OUTBOUND_GROUP_SESSIONS>>,
       <<c.message_hashes # <<>>, OLM_HASHES>> >>

\* Stores with the core store selected whatever the changes hold
StoresAlwaysCore(c) ==
    {CORE}
    \cup {StoreFlags(c)[i][2] : i \in {j \in DOMAIN StoreFlags(c) : StoreFlags(c)[j][1]}}
    \cup (IF c.key_requests # <<>>
          THEN {SECRET_REQUESTS_BY_INFO, UNSENT_SECRET_REQUESTS, OUTGOING_SECRET_REQUESTS}
          ELSE {})

\* Stores with the unsent requests store left out of the extension for key requests
StoresWithoutUnsent(c) ==
    {StoreFlags(c)[i][2] : i \in {j \in DOMAIN StoreFlags(c) : StoreFlags(c)[j][1]}}
    \cup (IF c.key_requests # <<>>
          THEN {SECRET_REQUESTS_BY_INFO, OUTGOING_SECRET_REQUESTS}
          ELSE {})

Stores(c) ==
    {StoreFlags(c)[i][2] : i \in {j \in DOMAIN StoreFlags(c) : StoreFlags(c)[j][1]}}
    \cup (IF c.key_requests # <<>>
          THEN {SECRET_REQUESTS_BY_INFO, UNSENT_SECRET_REQUESTS, OUTGOING_SECRET_REQUESTS}
          ELSE {})

\* one request against an object store of the transaction; ser says whether the
\* value is built by JsValue::from_serde (which can fail) right before the request
PutOp(store, key, val, ser) ==
    [kind |-> "put", store |-> store, key |-> key, val |-> val, ser |-> ser]
DelOp(store, key) ==
    [kind |-> "del", store |-> store, key |-> key, val |-> FALSE, ser |-> FALSE]

AccountOps(c, key) ==
    IF IsSome(c.account)
    THEN <<PutOp(CORE, ACCOUNT, Serde("pickle", Pickle(Unwrap(c.account), key)), TRUE)>>
    ELSE <<>>

PrivateIdentityOps(c, key) ==
    IF IsSome(c.private_identity)
    THEN <<PutOp(CORE, PRIVATE_IDENTITY,
                 Serde("pickle", Pickle(Unwrap(c.private_identity), key)), TRUE)>>
    ELSE <<>>

SessionOps(c, key) ==
    [i \in DOMAIN c.sessions |->
        PutOp(SESSION, Join(c.sessions[i].sender_key, c.sessions[i].session_id),
              Serde("pickle", Pickle(c.sessions[i], key)), TRUE)]

InboundGroupSessionOps(c, key) ==
    [i \in DOMAIN c.inbound_group_sessions |->
        LET s == c.inbound_group_sessions[i] IN
        PutOp(INBOUND_GROUP_SESSIONS, Join(Join(s.room_id, s.sender_key), s.session_id),
              Serde("pickle", Pickle(s, key)), TRUE)]

OutboundGroupSessionOps(c, key) ==
    [i \in DOMAIN c.outbound_group_sessions |->
        LET s == c.outbound_group_sessions[i] IN
        PutOp(OUTBOUND_GROUP_SESSIONS, s.room_id, Serde("pickle", Pickle(s, key)), TRUE)]

DevicePutOps(c) ==
    LET ds == c.devices.new \o c.devices.changed IN
    [i \in DOMAIN ds |->
        PutOp(DEVICES, Join(ds[i].user_id, ds[i].device_id), Serde("device", ds[i]), TRUE)]

DeviceDeleteOps(c) ==
    [i \in DOMAIN c.devices.deleted |->
        DelOp(DEVICES, Join(c.devices.deleted[i].user_id, c.devices.deleted[i].device_id))]

IdentityOps(c) ==
    LET ids == c.identities.changed \o c.identities.new IN
    [i \in DOMAIN ids |-> PutOp(IDENTITIES, ids[i].user_id, Serde("identity", ids[i]), TRUE)]

\* HashOps with the hashes of the changes never put
HashOpsNone(c) == <<>>

HashOps(c) ==
    [i \in DOMAIN c.message_hashes |->
        PutOp(OLM_HASHES, Join(c.message_hashes[i].sender_key, c.message_hashes[i].hash),
              TRUE, FALSE)]

\* KeyRequestOps with the two id stores taken for each other
KeyRequestOpsInverted(c) ==
    [j \in 1..(3 * Len(c.key_requests)) |->
        LET r == c.key_requests[((j - 1) \div 3) + 1]
            part == (j - 1) % 3
        IN  IF part = 0 THEN PutOp(SECRET_REQUESTS_BY_INFO, AsKey(r.info), r.request_id, FALSE)
            ELSE IF part = 1
            THEN DelOp(IF r.sent_out THEN OUTGOING_SECRET_REQUESTS ELSE UNSENT_SECRET_REQUESTS,
                       r.request_id)
            ELSE PutOp(IF r.sent_out THEN UNSENT_SECRET_REQUESTS ELSE OUTGOING_SECRET_REQUESTS,
                       r.request_id, Serde("request", r), TRUE)]

\* KeyRequestOps with the delete issued on the store the put goes to
KeyRequestOpsDeleteSameStore(c) ==
    [j \in 1..(3 * Len(c.key_requests)) |->
        LET r == c.key_requests[((j - 1) \div 3) + 1]
            part == (j - 1) % 3
            store == IF r.sent_out THEN OUTGOING_SECRET_REQUESTS ELSE UNSENT_SECRET_REQUESTS
        IN  IF part = 0 THEN PutOp(SECRET_REQUESTS_BY_INFO, AsKey(r.info), r.request_id, FALSE)
            ELSE IF part = 1 THEN DelOp(store, r.request_id)
            ELSE PutOp(store, r.request_id, Serde("request", r), TRUE)]

\* the three requests issued for each key request, in the order of the loop body
KeyRequestOps(c) ==
    [j \in 1..(3 * Len(c.key_requests)) |->
        LET r == c.key_requests[((j - 1) \div 3) + 1]
            part == (j - 1) % 3
        IN  IF part = 0 THEN PutOp(SECRET_REQUESTS_BY_INFO, AsKey(r.info), r.request_id, FALSE)
            ELSE IF part = 1
            THEN DelOp(IF r.sent_out THEN UNSENT_SECRET_REQUESTS ELSE OUTGOING_SECRET_REQUESTS,
                       r.request_id)
            ELSE PutOp(IF r.sent_out THEN OUTGOING_SECRET_REQUESTS ELSE UNSENT_SECRET_REQUESTS,
                       r.request_id, Serde("request", r), TRUE)]

\* WriteOps with the deletes of devices issued before the puts of devices
WriteOpsDeleteFirst(c, key) ==
    AccountOps(c, key) \o PrivateIdentityOps(c, key) \o SessionOps(c, key)
    \o InboundGroupSessionOps(c, key) \o OutboundGroupSessionOps(c, key)
    \o DeviceDeleteOps(c) \o DevicePutOps(c) \o IdentityOps(c) \o HashOps(c)
    \o KeyRequestOps(c)

\* every request save_changes issues inside its transaction, in program order
WriteOps(c, key) ==
    AccountOps(c, key) \o PrivateIdentityOps(c, key) \o SessionOps(c, key)
    \o InboundGroupSessionOps(c, key) \o OutboundGroupSessionOps(c, key)
    \o DevicePutOps(c) \o DeviceDeleteOps(c) \o IdentityOps(c) \o HashOps(c)
    \o KeyRequestOps(c)

ApplyOp(d, w) ==
    [d EXCEPT ![w.store] = IF w.kind = "put" THEN Put(@, w.key, w.val) ELSE Delete(@, w.key)]

\* the database after the requests of a committed transaction
RECURSIVE ApplyAll(_, _)
ApplyAll(d, ws) == IF ws = <<>> THEN d ELSE ApplyAll(ApplyOp(d, Head(ws)), Tail(ws))

-----------------------------------------------------------------------------
(* SessionStore, the in-memory session cache *)

\* an Arc<Mutex<Vec<Session>>> is a handle: an identity and the sessions behind it
HandleIds == 1..(2 * Cardinality(Procs) + 2)

HandlesInUse ==
    {session_cache[k].handle : k \in DOMAIN session_cache}
    \cup {ret[p].val[1].handle :
            p \in {q \in Procs : op[q] = "get_sessions" /\ ret[q].kind = "ok"}}

\* Arc::new: an identity no live handle has
NewHandle == CHOOSE h \in HandleIds \ HandlesInUse : \A g \in HandleIds \ HandlesInUse : h <= g

Contains(seq, x) == \E i \in DOMAIN seq : seq[i] = x

\* SessionStore::get
CacheGet(cache, sender_key) == Get(cache, sender_key)

\* SessionStore::set_for_sender: a new handle replaces whatever the key had
SetForSender(cache, sender_key, sessions) ==
    Put(cache, sender_key, [handle |-> NewHandle, sessions |-> sessions])

\* SessionStore::add: the handle of the sender key, created empty when the key has
\* none, gets the session pushed unless it holds it already
CacheAdd(cache, session) ==
    LET k == session.sender_key
        entry == IF k \in DOMAIN cache THEN cache[k]
                 ELSE [handle |-> NewHandle, sessions |-> <<>>]
    IN  Put(cache, k,
            IF Contains(entry.sessions, session) THEN entry
            ELSE [entry EXCEPT !.sessions = Append(@, session)])

-----------------------------------------------------------------------------
(* Calls: bookkeeping shared by all methods *)

NoTx == [state |-> "none", scope |-> {}, writes |-> <<>>]

\* transaction_on_*_with_mode
OpenTx(scope) == [state |-> "active", scope |-> scope, writes |-> <<>>]

Idle(p) == pc[p] = "idle"

Start(p, name, a) ==
    /\ Idle(p)
    /\ op' = [op EXCEPT ![p] = name]
    /\ arg' = [arg EXCEPT ![p] = a]

Goto(p, label) == pc' = [pc EXCEPT ![p] = label]

Finish(p, result) ==
    /\ pc' = [pc EXCEPT ![p] = "done"]
    /\ ret' = [ret EXCEPT ![p] = result]

\* the caller takes the result; the call is over
Return(p) ==
    /\ pc[p] = "done"
    /\ pc' = [pc EXCEPT ![p] = "idle"]
    /\ op' = [op EXCEPT ![p] = ""]
    /\ arg' = [arg EXCEPT ![p] = <<>>]
    /\ tx' = [tx EXCEPT ![p] = NoTx]
    /\ tmp' = [tmp EXCEPT ![p] = <<>>]
    /\ ret' = [ret EXCEPT ![p] = NoRet]
    /\ UNCHANGED <<db, memory>>

-----------------------------------------------------------------------------
(* save_changes *)

\* From the stores table to the opened transaction.  Nothing to do returns Ok
\* before a transaction exists; opening the transaction can fail.
SaveChangesEnter(p, c) ==
    /\ arg' = [arg EXCEPT ![p] = c]
    /\ IF Stores(c) = {}
       THEN /\ Finish(p, Ok("unit"))
            /\ UNCHANGED tx
       ELSE \/ /\ tx' = [tx EXCEPT ![p] = OpenTx(Stores(c))]
               /\ Goto(p, "save_pickle")
               /\ UNCHANGED ret
            \/ /\ Finish(p, Err("IndexedDatabase"))
               /\ UNCHANGED tx
    /\ UNCHANGED <<db, tmp>>

SaveChangesBegin(p, c) ==
    /\ Idle(p)
    /\ op' = [op EXCEPT ![p] = "save_changes"]
    /\ SaveChangesEnter(p, c)
    /\ UNCHANGED memory

\* A transaction that save_changes leaves behind on an early return was never
\* aborted: IndexedDB commits it with the requests issued so far once they are
\* done, unless the engine itself aborts it.
Abandon(p, result) ==
    /\ Finish(p, result)
    /\ \/ /\ db' = ApplyAll(db, tx[p].writes)
          /\ tx' = [tx EXCEPT ![p].state = "committed"]
       \/ /\ db' = db
          /\ tx' = [tx EXCEPT ![p].state = "aborted"]

\* account.pickle(..).await and private_identity.pickle(..).await?
SaveChangesPickle(p) ==
    /\ pc[p] = "save_pickle"
    /\ \/ /\ Goto(p, "save_write")
          /\ UNCHANGED <<db, tx, ret>>
       \/ /\ IsSome(arg[p].private_identity)
          /\ Abandon(p, Err("Serialization"))
    /\ UNCHANGED <<memory, op, arg, tmp, input>>

\* the next put_key_val / delete of the transaction, with the object_store(..)?
\* and the from_serde(..)? in front of it
SaveChangesWrite(p) ==
    /\ pc[p] = "save_write"
    /\ LET ops == WriteOps(arg[p], pickle_key)
           n == Len(tx[p].writes)
       IN  /\ n < Len(ops)
           /\ \/ /\ ops[n + 1].store \in tx[p].scope
                 /\ tx' = [tx EXCEPT ![p].writes = Append(@, ops[n + 1])]
                 /\ UNCHANGED <<db, pc, ret>>
              \/ /\ ops[n + 1].ser
                 /\ ops[n + 1].store \in tx[p].scope
                 /\ Abandon(p, Err("Serialization"))
              \/ Abandon(p, Err("IndexedDatabase"))
    /\ UNCHANGED <<memory, op, arg, tmp, input>>

\* SaveChangesCommit with the result of the commit ignored: the caches are updated
\* whether or not the transaction committed
SaveChangesCommitUnchecked(p) ==
    /\ pc[p] = "save_write"
    /\ Len(tx[p].writes) = Len(WriteOps(arg[p], pickle_key))
    /\ \/ /\ db' = ApplyAll(db, tx[p].writes)
          /\ tx' = [tx EXCEPT ![p].state = "committed"]
       \/ /\ db' = db
          /\ tx' = [tx EXCEPT ![p].state = "aborted"]
    /\ IF arg[p].sessions = <<>>
       THEN Finish(p, Ok("unit")) /\ UNCHANGED tmp
       ELSE /\ Goto(p, "save_cache")
            /\ tmp' = [tmp EXCEPT ![p] = <<0>>]
            /\ UNCHANGED ret
    /\ UNCHANGED <<memory, op, arg, input>>

\* tx.await.into_result()?
SaveChangesCommit(p) ==
    /\ pc[p] = "save_write"
    /\ Len(tx[p].writes) = Len(WriteOps(arg[p], pickle_key))
    /\ \/ /\ db' = ApplyAll(db, tx[p].writes)
          /\ tx' = [tx EXCEPT ![p].state = "committed"]
          /\ IF arg[p].sessions = <<>>
             THEN Finish(p, Ok("unit")) /\ UNCHANGED tmp
             ELSE /\ Goto(p, "save_cache")
                  /\ tmp' = [tmp EXCEPT ![p] = <<0>>]
                  /\ UNCHANGED ret
       \/ /\ db' = db
          /\ tx' = [tx EXCEPT ![p].state = "aborted"]
          /\ Finish(p, Err("IndexedDatabase"))
          /\ UNCHANGED tmp
    /\ UNCHANGED <<memory, op, arg, input>>

\* self.session_cache.add(session).await, for the next session of the changes
SaveChangesCache(p) ==
    /\ pc[p] = "save_cache"
    /\ LET i == tmp[p][1] + 1 IN
       /\ session_cache' = CacheAdd(session_cache, arg[p].sessions[i])
       /\ IF i = Len(arg[p].sessions)
          THEN Finish(p, Ok("unit")) /\ UNCHANGED tmp
          ELSE tmp' = [tmp EXCEPT ![p] = <<i>>] /\ UNCHANGED <<pc, ret>>
    /\ UNCHANGED <<db, account_info, pickle_key, tracked_users_cache,
                   users_for_key_query_cache, op, arg, tx, input>>

-----------------------------------------------------------------------------
(* get_sessions *)

\* the keys of an object store inside a key range, in key order
RECURSIVE SortKeys(_)
SortKeys(keys) ==
    IF keys = {} THEN <<>>
    ELSE LET m == CHOOSE k \in keys : \A j \in keys : StrLeq(k, j)
         IN  <<m>> \o SortKeys(keys \ {m})

\* get_all_with_key(range)
GetAllWithKey(store, range) ==
    LET keys == SortKeys({k \in DOMAIN store : InRange(k, range)})
    IN  [i \in DOMAIN keys |-> store[keys[i]]]

\* DecodeSessions that stops at the first value it cannot decode
RECURSIVE DecodeSessionsUntilFailure(_, _)
DecodeSessionsUntilFailure(values, key) ==
    IF values = <<>> THEN <<>>
    ELSE LET v == Head(values) IN
         IF CanDeser("pickle", v) /\ CanUnpickle(Deser(v), key)
         THEN <<Unpickle(Deser(v), key)>> \o DecodeSessionsUntilFailure(Tail(values), key)
         ELSE <<>>

\* the filter_map of get_sessions: a value that does not deserialize to a pickle,
\* or a pickle that does not decrypt, is dropped
RECURSIVE DecodeSessions(_, _)
DecodeSessions(values, key) ==
    IF values = <<>> THEN <<>>
    ELSE LET v == Head(values) IN
         (IF CanDeser("pickle", v) /\ CanUnpickle(Deser(v), key)
          THEN <<Unpickle(Deser(v), key)>>
          ELSE <<>>)
         \o DecodeSessions(Tail(values), key)

\* GetSessionsBegin with the cache looked up before the account is checked
GetSessionsBeginCacheFirst(p, sender_key) ==
    /\ Start(p, "get_sessions", sender_key)
    /\ IF IsSome(CacheGet(session_cache, sender_key))
       THEN Finish(p, Ok(CacheGet(session_cache, sender_key))) /\ UNCHANGED tx
       ELSE IF ~IsSome(account_info)
       THEN Finish(p, Err("AccountUnset")) /\ UNCHANGED tx
       ELSE \/ /\ Goto(p, "get_sessions_scan")
               /\ tx' = [tx EXCEPT ![p] = OpenTx({SESSION})]
               /\ UNCHANGED ret
            \/ Finish(p, Err("IndexedDatabase")) /\ UNCHANGED tx
    /\ UNCHANGED <<db, memory, tmp, input>>

GetSessionsBegin(p, sender_key) ==
    /\ Start(p, "get_sessions", sender_key)
    /\ IF ~IsSome(account_info)
       THEN Finish(p, Err("AccountUnset")) /\ UNCHANGED tx
       ELSE IF IsSome(CacheGet(session_cache, sender_key))
       THEN Finish(p, Ok(CacheGet(session_cache, sender_key))) /\ UNCHANGED tx
       ELSE \/ /\ Goto(p, "get_sessions_scan")
               /\ tx' = [tx EXCEPT ![p] = OpenTx({SESSION})]
               /\ UNCHANGED ret
            \/ Finish(p, Err("IndexedDatabase")) /\ UNCHANGED tx
    /\ UNCHANGED <<db, memory, tmp, input>>

\* the transaction reads the range out of the session store
GetSessionsScan(p) ==
    /\ pc[p] = "get_sessions_scan"
    /\ \/ /\ tmp' = [tmp EXCEPT ![p] =
                        DecodeSessions(GetAllWithKey(db[SESSION], make_range(arg[p])),
                                       pickle_key)]
          /\ Goto(p, "get_sessions_set")
          /\ UNCHANGED ret
       \/ Finish(p, Err("IndexedDatabase")) /\ UNCHANGED tmp
    /\ UNCHANGED <<db, memory, op, arg, tx, input>>

\* the call resumes with the result of the scan: set_for_sender, then get
GetSessionsSet(p) ==
    /\ pc[p] = "get_sessions_set"
    /\ session_cache' = SetForSender(session_cache, arg[p], tmp[p])
    /\ Finish(p, Ok(CacheGet(session_cache', arg[p])))
    /\ UNCHANGED <<db, account_info, pickle_key, tracked_users_cache,
                   users_for_key_query_cache, op, arg, tx, tmp, input>>

-----------------------------------------------------------------------------
(* load_account, save_account *)

\* user_id.as_string().map(|u| UserId::try_from(u)): a user id is the sigil '@', a
\* localpart, ':' and a server name that is not empty
ValidUserId(k) ==
    /\ Len(k) >= 3
    /\ k[1] = 64
    /\ \E i \in 2..(Len(k) - 1) : k[i] = Colon

\* DirtyFlag with dirty only for a value that deserializes to the boolean true
DirtyFlagOnlyTrue(store, user) ==
    LET v == Get(store, user) IN
    IsSome(v) /\ CanDeser("bool", Unwrap(v)) /\ Deser(Unwrap(v)) = TRUE

\* the flag of the user as the match of load_tracked_users reads it: false for a
\* value that is there and deserializes to the boolean false, true for all else
DirtyFlag(store, user) ==
    LET v == Get(store, user) IN
    ~(IsSome(v) /\ CanDeser("bool", Unwrap(v)) /\ Deser(Unwrap(v)) = FALSE)

\* the loop of load_tracked_users over the keys of the tracked_users store: a key
\* that is no user id is passed over, a value that is not the literal false counts
\* as dirty
TrackedAfterLoad(store) == tracked_users_cache \cup {u \in DOMAIN store : ValidUserId(u)}
DirtyAfterLoad(store) ==
    users_for_key_query_cache
    \cup {u \in DOMAIN store : ValidUserId(u) /\ DirtyFlag(store, u)}

LoadAccountBegin(p) ==
    /\ Start(p, "load_account", <<>>)
    /\ \/ /\ Goto(p, "load_account_get")
          /\ tx' = [tx EXCEPT ![p] = OpenTx({CORE})]
          /\ UNCHANGED ret
       \/ Finish(p, Err("IndexedDatabase")) /\ UNCHANGED tx
    /\ UNCHANGED <<db, memory, tmp, input>>

\* .get(ACCOUNT)?.await?
LoadAccountGet(p) ==
    /\ pc[p] = "load_account_get"
    /\ \/ /\ IsSome(Get(db[CORE], ACCOUNT))
          /\ tmp' = [tmp EXCEPT ![p] = Get(db[CORE], ACCOUNT)]
          /\ Goto(p, "load_account_tracked")
          /\ UNCHANGED ret
       \/ /\ ~IsSome(Get(db[CORE], ACCOUNT))
          /\ Finish(p, Ok(None))
          /\ UNCHANGED tmp
       \/ Finish(p, Err("IndexedDatabase")) /\ UNCHANGED tmp
    /\ UNCHANGED <<db, memory, op, arg, tx, input>>

\* load_tracked_users().await?, then from_pickle(..)? and the write of account_info
LoadAccountFinish(p) ==
    /\ pc[p] = "load_account_tracked"
    /\ \/ /\ Finish(p, Err("IndexedDatabase"))
          /\ UNCHANGED memory
       \/ /\ tracked_users_cache' = TrackedAfterLoad(db[TRACKED_USERS])
          /\ users_for_key_query_cache' = DirtyAfterLoad(db[TRACKED_USERS])
          /\ LET v == Unwrap(tmp[p]) IN
             IF ~CanDeser("pickle", v)
             THEN Finish(p, Err("Serialization")) /\ UNCHANGED account_info
             ELSE IF ~CanUnpickle(Deser(v), pickle_key)
             THEN Finish(p, Err("OlmAccount")) /\ UNCHANGED account_info
             ELSE /\ account_info' = Some(AccountInfoOf(Unpickle(Deser(v), pickle_key)))
                  /\ Finish(p, Ok(Some(Unpickle(Deser(v), pickle_key))))
          /\ UNCHANGED <<pickle_key, session_cache>>
    /\ UNCHANGED <<db, op, arg, tx, tmp, input>>

\* save_account: account_info is written first, then save_changes runs
SaveAccountBegin(p, account) ==
    /\ Idle(p)
    /\ op' = [op EXCEPT ![p] = "save_account"]
    /\ account_info' = Some(AccountInfoOf(account))
    /\ SaveChangesEnter(p, [NoChanges EXCEPT !.account = Some(account)])
    /\ UNCHANGED <<pickle_key, session_cache, tracked_users_cache,
                   users_for_key_query_cache, input>>

-----------------------------------------------------------------------------
(* open *)

\* drop(store) and open_with_name(name): the database stays, the instance is new
ReopenStore ==
    /\ \A p \in Procs : Idle(p)
    /\ account_info' = None
    /\ pickle_key' = DEFAULT_PICKLE
    /\ session_cache' = <<>>
    /\ tracked_users_cache' = {}
    /\ users_for_key_query_cache' = {}
    /\ UNCHANGED <<db, pc, op, arg, tx, tmp, ret>>

Reopen == ReopenStore /\ UNCHANGED input

-----------------------------------------------------------------------------
(* point reads and listings: one read-only transaction each *)

\* DeserResult with a value that does not deserialize passed over as absent
DeserResultLenient(type, o) ==
    IF IsSome(o) /\ CanDeser(type, Unwrap(o)) THEN Ok(Some(Deser(Unwrap(o)))) ELSE Ok(None)

\* .map(|i| i.into_serde()).transpose()? of a value that is plain JSON
DeserResult(type, o) ==
    IF ~IsSome(o) THEN Ok(None)
    ELSE IF ~CanDeser(type, Unwrap(o)) THEN Err("Serialization")
    ELSE Ok(Some(Deser(Unwrap(o))))

\* from_pickle(pickle.into_serde()?, ..) of a value that is an encrypted pickle
UnpickleResult(o, key, error) ==
    IF ~IsSome(o) THEN Ok(None)
    ELSE IF ~CanDeser("pickle", Unwrap(o)) THEN Err("Serialization")
    ELSE IF ~CanUnpickle(Deser(Unwrap(o)), key) THEN Err(error)
    ELSE Ok(Some(Unpickle(Deser(Unwrap(o)), key)))

\* a method that is one read-only transaction: it returns what the read gives,
\* or the engine's error
Read(p, name, a, result) ==
    /\ Start(p, name, a)
    /\ \/ Finish(p, result)
       \/ Finish(p, Err("IndexedDatabase"))
    /\ UNCHANGED <<db, memory, tx, tmp, input>>

LoadIdentity(p) ==
    Read(p, "load_identity", <<>>,
         UnpickleResult(Get(db[CORE], PRIVATE_IDENTITY), pickle_key, "Unpickling"))

GetInboundGroupSession(p, room_id, sender_key, session_id) ==
    Read(p, "get_inbound_group_session", <<room_id, sender_key, session_id>>,
         UnpickleResult(Get(db[INBOUND_GROUP_SESSIONS],
                            Join(Join(room_id, sender_key), session_id)),
                        pickle_key, "OlmGroupSession"))

\* todo!()
GetOutboundGroupSessions(p, room_id) ==
    /\ Start(p, "get_outbound_group_sessions", room_id)
    /\ Finish(p, Panic)
    /\ UNCHANGED <<db, memory, tx, tmp, input>>

\* the methods whose body is todo!()
Unimplemented ==
    {"get_inbound_group_sessions", "inbound_group_session_counts",
     "inbound_group_sessions_for_backup", "reset_backup_state", "load_backup_keys"}

CallUnimplemented(p) ==
    /\ \E name \in Unimplemented : Start(p, name, <<>>)
    /\ Finish(p, Panic)
    /\ UNCHANGED <<db, memory, tx, tmp, input>>

GetDevice(p, user_id, device_id) ==
    Read(p, "get_device", <<user_id, device_id>>,
         DeserResult("device", Get(db[DEVICES], Join(user_id, device_id))))

\* the filter_map of get_user_devices, collected into a map by device id
UserDevices(values) ==
    LET good == {i \in DOMAIN values : CanDeser("device", values[i])}
        ids == {Deser(values[i]).device_id : i \in good}
    IN  [d \in ids |->
            Deser(values[CHOOSE i \in good :
                    /\ Deser(values[i]).device_id = d
                    /\ \A j \in good : Deser(values[j]).device_id = d => j <= i])]

GetUserDevices(p, user_id) ==
    Read(p, "get_user_devices", user_id,
         Ok(UserDevices(GetAllWithKey(db[DEVICES], make_range(user_id)))))

GetUserIdentity(p, user_id) ==
    Read(p, "get_user_identity", user_id,
         DeserResult("identity", Get(db[IDENTITIES], user_id)))

IsMessageKnown(p, hash) ==
    Read(p, "is_message_known", hash,
         Ok(IsSome(Get(db[OLM_HASHES], Join(hash.sender_key, hash.hash)))))

\* get_outgoing_key_request_helper: the sent requests first, then the unsent ones
OutgoingKeyRequest(d, id) ==
    LET sent == DeserResult("request", Get(d[OUTGOING_SECRET_REQUESTS], id)) IN
    IF sent.kind = "ok" /\ ~IsSome(sent.val)
    THEN DeserResult("request", Get(d[UNSENT_SECRET_REQUESTS], id))
    ELSE sent

GetOutgoingSecretRequests(p, request_id) ==
    Read(p, "get_outgoing_secret_requests", request_id, OutgoingKeyRequest(db, request_id))

\* get_secret_request_by_info: one transaction reads the id ...
GetSecretRequestByInfoBegin(p, info) ==
    /\ Start(p, "get_secret_request_by_info", info)
    /\ \/ /\ IsSome(Get(db[SECRET_REQUESTS_BY_INFO], AsKey(info)))
          /\ tmp' = [tmp EXCEPT ![p] = Get(db[SECRET_REQUESTS_BY_INFO], AsKey(info))]
          /\ Goto(p, "get_secret_request_helper")
          /\ UNCHANGED ret
       \/ /\ ~IsSome(Get(db[SECRET_REQUESTS_BY_INFO], AsKey(info)))
          /\ Finish(p, Ok(None))
          /\ UNCHANGED tmp
       \/ Finish(p, Err("IndexedDatabase")) /\ UNCHANGED tmp
    /\ UNCHANGED <<db, memory, tx, input>>

\* ... and the helper reads the request in a transaction of its own
GetSecretRequestByInfoHelper(p) ==
    /\ pc[p] = "get_secret_request_helper"
    /\ \/ Finish(p, OutgoingKeyRequest(db, Unwrap(tmp[p])))
       \/ Finish(p, Err("IndexedDatabase"))
    /\ UNCHANGED <<db, memory, op, arg, tx, tmp, input>>

\* get_all() and the filter_map of get_unsent_secret_requests
UnsentRequests(store) ==
    LET keys == SortKeys({k \in DOMAIN store : CanDeser("request", store[k])})
    IN  [i \in DOMAIN keys |-> Deser(store[keys[i]])]

\* GetUnsentSecretRequests reading the store of the requests sent out
GetUnsentSecretRequestsFromOutgoing(p) ==
    Read(p, "get_unsent_secret_requests", <<>>, Ok(UnsentRequests(db[OUTGOING_SECRET_REQUESTS])))

GetUnsentSecretRequests(p) ==
    Read(p, "get_unsent_secret_requests", <<>>, Ok(UnsentRequests(db[UNSENT_SECRET_REQUESTS])))

InitStore ==
    /\ db = EmptyDb
    /\ account_info = None
    /\ pickle_key = DEFAULT_PICKLE
    /\ session_cache = <<>>
    /\ tracked_users_cache = {}
    /\ users_for_key_query_cache = {}
    /\ pc = [p \in Procs |-> "idle"]
    /\ op = [p \in Procs |-> ""]
    /\ arg = [p \in Procs |-> <<>>]
    /\ tx = [p \in Procs |-> NoTx]
    /\ tmp = [p \in Procs |-> <<>>]
    /\ ret = [p \in Procs |-> NoRet]

-----------------------------------------------------------------------------
(* Spec: the session side of the store, with calls that overlap *)

\* the strings "a", "ab", "1", "2"
SenderKeys == {<<97>>, <<97, 98>>}
SessionIds == {<<49>>, <<50>>}

Sessions == [sender_key : {<<97>>}, session_id : SessionIds]

Accounts ==
    [user_id : {"@alice:example.org"}, device_id : {"ALICEDEVICE"},
     identity_keys : {"alice_keys"}, shared : BOOLEAN]

MaxSessions == 1

SessionLists == UNION {[1..n -> Sessions] : n \in 0..MaxSessions}

SessionChanges ==
    {[NoChanges EXCEPT !.account = a, !.sessions = ss] :
        a \in {None} \cup {Some(x) : x \in Accounts}, ss \in SessionLists}

Init == InitStore /\ input = None

SaveChanges(p) == \E c \in SessionChanges : SaveChangesBegin(p, c) /\ UNCHANGED input
SaveAccount(p) == \E a \in Accounts : SaveAccountBegin(p, a)
GetSessions(p) == \E k \in SenderKeys : GetSessionsBegin(p, k)

\* the steps of the calls that write, and of load_account
CallerStep(p) ==
    \/ SaveChanges(p)
    \/ SaveChangesPickle(p)
    \/ SaveChangesWrite(p)
    \/ SaveChangesCommit(p)
    \/ SaveChangesCache(p)
    \/ SaveAccount(p)
    \/ LoadAccountBegin(p)
    \/ LoadAccountGet(p)
    \/ LoadAccountFinish(p)

\* the steps of get_sessions, and the return of any call
ReaderStep(p) ==
    \/ GetSessions(p)
    \/ GetSessionsScan(p)
    \/ GetSessionsSet(p)
    \/ Return(p) /\ UNCHANGED input

Next ==
    \/ \E p \in Callers : CallerStep(p)
    \/ \E p \in Procs : ReaderStep(p)
    \/ Reopen

Spec == Init /\ [][Next]_vars

\* one task: every call returns before the next one starts
NextSequential ==
    \/ \E p \in Callers : CallerStep(p) \/ ReaderStep(p)
    \/ Reopen

SpecSequential == Init /\ [][NextSequential]_vars

-----------------------------------------------------------------------------
(* SpecChanges: one save_changes call of any Changes on a new store, and the
   reads that follow it *)

\* the strings "!r", "@b", "D", "h", "r1", "s", "m"
TheSession == [sender_key |-> <<97>>, session_id |-> <<49>>]
TheInboundGroupSession ==
    [room_id |-> <<33, 114>>, sender_key |-> <<97>>, session_id |-> <<49>>]
TheOutboundGroupSession == [room_id |-> <<33, 114>>]
TheDevice == [user_id |-> <<64, 98>>, device_id |-> <<68>>]
TheIdentity == [user_id |-> <<64, 98>>]
TheHash == [sender_key |-> <<97>>, hash |-> <<104>>]
TheInfo == [type |-> <<115>>, name |-> <<109>>]
TheRequestId == <<114, 49>>
TheRequests == [request_id : {TheRequestId}, info : {TheInfo}, sent_out : BOOLEAN]
ThePrivateIdentity == [user_id |-> "@alice:example.org"]
TheAccount ==
    [user_id |-> "@alice:example.org", device_id |-> "ALICEDEVICE",
     identity_keys |-> "alice_keys", shared |-> FALSE]

OneOrNone(x) == {<<>>, <<x>>}

AllChanges ==
    [account : OneOrNone(TheAccount),
     private_identity : OneOrNone(ThePrivateIdentity),
     sessions : OneOrNone(TheSession),
     inbound_group_sessions : OneOrNone(TheInboundGroupSession),
     outbound_group_sessions : OneOrNone(TheOutboundGroupSession),
     devices : [new : OneOrNone(TheDevice), changed : OneOrNone(TheDevice),
                deleted : OneOrNone(TheDevice)],
     identities : [new : OneOrNone(TheIdentity), changed : OneOrNone(TheIdentity)],
     message_hashes : OneOrNone(TheHash),
     key_requests : {<<>>} \cup {<<r>> : r \in TheRequests}]

\* the number of fields of the changes that are not empty
Size(c) ==
    Len(c.account) + Len(c.private_identity) + Len(c.sessions)
    + Len(c.inbound_group_sessions) + Len(c.outbound_group_sessions)
    + Len(c.devices.new) + Len(c.devices.changed) + Len(c.devices.deleted)
    + Len(c.identities.new) + Len(c.identities.changed)
    + Len(c.message_hashes) + Len(c.key_requests)

MaxFields == 3

InitChanges == InitStore /\ input \in {<<c>> : c \in {x \in AllChanges : Size(x) <= MaxFields}}

\* the caller hands its changes to save_changes, once
SaveChangesInput(p) ==
    /\ Len(input) = 1
    /\ SaveChangesBegin(p, input[1])
    /\ UNCHANGED input

\* the caller takes the result of a call and remembers that of save_changes
ReturnToCaller(p) ==
    /\ Return(p)
    /\ input' = IF op[p] = "save_changes" THEN <<input[1], ret[p].kind>> ELSE input

NextChanges ==
    \E p \in Callers :
        \/ SaveChangesInput(p)
        \/ SaveChangesPickle(p)
        \/ SaveChangesWrite(p)
        \/ SaveChangesCommit(p)
        \/ SaveChangesCache(p)
        \/ LoadAccountBegin(p)
        \/ LoadAccountGet(p)
        \/ LoadAccountFinish(p)
        \/ GetSessionsBegin(p, TheSession.sender_key)
        \/ GetSessionsScan(p)
        \/ GetSessionsSet(p)
        \/ LoadIdentity(p)
        \/ GetInboundGroupSession(p, TheInboundGroupSession.room_id,
                                  TheInboundGroupSession.sender_key,
                                  TheInboundGroupSession.session_id)
        \/ GetOutboundGroupSessions(p, TheOutboundGroupSession.room_id)
        \/ CallUnimplemented(p)
        \/ GetDevice(p, TheDevice.user_id, TheDevice.device_id)
        \/ GetUserDevices(p, TheDevice.user_id)
        \/ GetUserIdentity(p, TheIdentity.user_id)
        \/ IsMessageKnown(p, TheHash)
        \/ GetOutgoingSecretRequests(p, TheRequestId)
        \/ GetSecretRequestByInfoBegin(p, TheInfo)
        \/ GetSecretRequestByInfoHelper(p)
        \/ GetUnsentSecretRequests(p)
        \/ ReturnToCaller(p)

SpecChanges == InitChanges /\ [][NextChanges]_vars

-----------------------------------------------------------------------------
(* SpecRestart: one task saves an account and sessions of two sender keys, the
   store is dropped and opened again by its name, and the new instance reads *)

RestartSessions == [sender_key : SenderKeys, session_id : SessionIds]

RestartSessionLists == UNION {[1..n -> RestartSessions] : n \in 0..MaxSessions}

RestartChanges ==
    {[NoChanges EXCEPT !.account = a, !.sessions = ss] :
        a \in {None} \cup {Some(x) : x \in Accounts}, ss \in RestartSessionLists}

\* what the caller knows: the account and the sessions of the saves that returned
\* Ok, whether a save returned an error, and whether the store was opened again
NoHistory == [account |-> None, saved |-> {}, failed |-> FALSE, closed |-> FALSE]

InitRestart == InitStore /\ input = NoHistory

\* the caller saves on the first instance, as long as its saves succeed
RestartSaveChanges(p) ==
    /\ ~input.closed /\ ~input.failed
    /\ \E c \in RestartChanges : SaveChangesBegin(p, c)
    /\ UNCHANGED input

RestartSaveAccount(p) ==
    /\ ~input.closed /\ ~input.failed
    /\ \E a \in Accounts : SaveAccountBegin(p, a)

\* the caller takes the result of a call and notes what a save has saved
RestartReturn(p) ==
    /\ Return(p)
    /\ input' =
        IF op[p] \notin {"save_changes", "save_account"} THEN input
        ELSE IF ret[p].kind # "ok" THEN [input EXCEPT !.failed = TRUE]
        ELSE [input EXCEPT
                !.account = IF IsSome(arg[p].account) THEN arg[p].account ELSE @,
                !.saved = @ \cup {arg[p].sessions[i] : i \in DOMAIN arg[p].sessions}]

\* drop(store), then open_with_name(name)
Restart == ~input.failed /\ ReopenStore /\ input' = [input EXCEPT !.closed = TRUE]

NextRestart ==
    \/ \E p \in Callers :
        \/ RestartSaveChanges(p)
        \/ RestartSaveAccount(p)
        \/ SaveChangesPickle(p)
        \/ SaveChangesWrite(p)
        \/ SaveChangesCommit(p)
        \/ SaveChangesCache(p)
        \/ LoadAccountBegin(p)
        \/ LoadAccountGet(p)
        \/ LoadAccountFinish(p)
        \/ GetSessions(p)
        \/ GetSessionsScan(p)
        \/ GetSessionsSet(p)
        \/ RestartReturn(p)
    \/ Restart

SpecRestart == InitRestart /\ [][NextRestart]_vars

-----------------------------------------------------------------------------
(* delete_outgoing_secret_requests, and the lookups as functions of the database *)

\* get_secret_request_by_info on one state of the database: the id the info
\* points to, then the request of that id
SecretRequestByInfo(d, info) ==
    LET id == Get(d[SECRET_REQUESTS_BY_INFO], AsKey(info)) IN
    IF IsSome(id) THEN OutgoingKeyRequest(d, Unwrap(id)) ELSE Ok(None)

DeleteScope == {OUTGOING_SECRET_REQUESTS, UNSENT_SECRET_REQUESTS, SECRET_REQUESTS_BY_INFO}

\* DeleteOps with the info pointer left in place
DeleteOpsKeepingInfo(request, id) ==
    <<DelOp(UNSENT_SECRET_REQUESTS, id), DelOp(OUTGOING_SECRET_REQUESTS, id)>>

\* DeleteOps with the pointer of the secret "m" deleted whether or not a request
\* was found
DeleteOpsAnyInfo(request, id) ==
    <<DelOp(SECRET_REQUESTS_BY_INFO, <<115, 58, 109>>),
      DelOp(UNSENT_SECRET_REQUESTS, id), DelOp(OUTGOING_SECRET_REQUESTS, id)>>

\* the delete requests of delete_outgoing_secret_requests, in program order: the
\* info pointer of the request that was found, then the id in both id stores
DeleteOps(request, id) ==
    (IF IsSome(request)
     THEN <<DelOp(SECRET_REQUESTS_BY_INFO, AsKey(Unwrap(request).info))>>
     ELSE <<>>)
    \o <<DelOp(UNSENT_SECRET_REQUESTS, id), DelOp(OUTGOING_SECRET_REQUESTS, id)>>

DeleteOutgoingSecretRequestsBegin(p, request_id) ==
    /\ Start(p, "delete_outgoing_secret_requests", request_id)
    /\ \/ /\ tx' = [tx EXCEPT ![p] = OpenTx(DeleteScope)]
          /\ Goto(p, "delete_run")
          /\ UNCHANGED ret
       \/ Finish(p, Err("IndexedDatabase")) /\ UNCHANGED tx
    /\ UNCHANGED <<db, memory, tmp, input>>

\* The transaction runs: a read-write transaction has its object stores to itself
\* from its first request to its end, so its reads and its deletes are one step
\* for every other call.  Each `?` can return early with the transaction dropped,
\* never aborted.
DeleteOutgoingSecretRequestsRun(p) ==
    /\ pc[p] = "delete_run"
    /\ LET found == OutgoingKeyRequest(db, arg[p]) IN
       \/ /\ found.kind = "err"
          /\ Finish(p, found)
          /\ tx' = [tx EXCEPT ![p].state = "committed"]
          /\ db' = db
          /\ UNCHANGED tmp
       \/ /\ found.kind = "ok"
          /\ tmp' = [tmp EXCEPT ![p] = found.val]
          /\ LET ops == DeleteOps(found.val, arg[p]) IN
             \/ \E n \in 0..(Len(ops) - 1) :
                  /\ Finish(p, Err("IndexedDatabase"))
                  /\ \/ /\ db' = ApplyAll(db, SubSeq(ops, 1, n))
                        /\ tx' = [tx EXCEPT ![p].writes = SubSeq(ops, 1, n),
                                            ![p].state = "committed"]
                     \/ /\ db' = db
                        /\ tx' = [tx EXCEPT ![p].writes = SubSeq(ops, 1, n),
                                            ![p].state = "aborted"]
             \/ /\ db' = ApplyAll(db, ops)
                /\ tx' = [tx EXCEPT ![p].writes = ops, ![p].state = "committed"]
                /\ Finish(p, Ok("unit"))
             \/ /\ db' = db
                /\ tx' = [tx EXCEPT ![p].writes = ops, ![p].state = "aborted"]
                /\ Finish(p, Err("IndexedDatabase"))
    /\ UNCHANGED <<memory, op, arg, input>>

-----------------------------------------------------------------------------
(* SpecRequests: one task saves, looks up and deletes gossip requests of two ids
   and two infos;  SpecOverlap: the saves of one task overlap the deletes of
   another *)

\* the strings "r1", "r2" and the secrets "m", "n"
RequestIds == {<<114, 49>>, <<114, 50>>}
Infos == [type : {<<115>>}, name : {<<109>>, <<110>>}]

Requests == [request_id : RequestIds, info : Infos, sent_out : BOOLEAN]

MaxRequests == 2

RequestLists(requests) == UNION {[1..n -> requests] : n \in 1..MaxRequests}

RequestChanges(requests) ==
    {[NoChanges EXCEPT !.key_requests = rs] : rs \in RequestLists(requests)}

\* input: whether a call has returned an error so far
InitRequests == InitStore /\ input = FALSE

SaveRequests(p) ==
    \E c \in RequestChanges(Requests) : SaveChangesBegin(p, c) /\ UNCHANGED input

DeleteOutgoingSecretRequests(p) ==
    \E id \in RequestIds : DeleteOutgoingSecretRequestsBegin(p, id)

GetOutgoingSecretRequest(p) == \E id \in RequestIds : GetOutgoingSecretRequests(p, id)

GetSecretRequestByInfo(p) == \E info \in Infos : GetSecretRequestByInfoBegin(p, info)

\* the caller takes the result and notes an error
ReturnNoting(p) ==
    /\ Return(p)
    /\ input' = (input \/ ret[p].kind = "err")

\* the task stops at the first error a call returns to it
NextRequests ==
    \E p \in Callers :
        \/ ~input /\ SaveRequests(p)
        \/ SaveChangesPickle(p)
        \/ SaveChangesWrite(p)
        \/ SaveChangesCommit(p)
        \/ ~input /\ DeleteOutgoingSecretRequests(p)
        \/ DeleteOutgoingSecretRequestsRun(p)
        \/ ~input /\ GetOutgoingSecretRequest(p)
        \/ ~input /\ GetSecretRequestByInfo(p)
        \/ GetSecretRequestByInfoHelper(p)
        \/ ~input /\ GetUnsentSecretRequests(p)
        \/ ReturnNoting(p)

SpecRequests == InitRequests /\ [][NextRequests]_vars

\* the requests of one info
OverlapRequests == {r \in Requests : r.info = TheInfo}

SaveOverlapRequests(p) ==
    \E c \in RequestChanges(OverlapRequests) : SaveChangesBegin(p, c) /\ UNCHANGED input

NextOverlap ==
    \/ \E p \in Callers :
        \/ SaveOverlapRequests(p)
        \/ SaveChangesPickle(p)
        \/ SaveChangesWrite(p)
        \/ SaveChangesCommit(p)
    \/ \E p \in Procs \ Callers :
        \/ DeleteOutgoingSecretRequests(p)
        \/ DeleteOutgoingSecretRequestsRun(p)
    \/ \E p \in Procs : Return(p) /\ UNCHANGED input

SpecOverlap == InitRequests /\ [][NextOverlap]_vars

-----------------------------------------------------------------------------
(* update_tracked_user, and load_tracked_users statement by statement *)

\* tracked_users() and users_for_key_query(): copies of the two sets
TrackedUsers == tracked_users_cache
UsersForKeyQuery == users_for_key_query_cache

\* update_tracked_user with already_added the negation of what insert returns
UpdateTrackedUserInsertNegated(p, user, dirty) ==
    /\ Start(p, "update_tracked_user", <<user, dirty>>)
    /\ tmp' = [tmp EXCEPT ![p] = <<user \in tracked_users_cache>>]
    /\ tracked_users_cache' = tracked_users_cache \cup {user}
    /\ Goto(p, "update_dirty")
    /\ UNCHANGED <<db, account_info, pickle_key, session_cache,
                   users_for_key_query_cache, tx, ret, input>>

\* let already_added = self.tracked_users_cache.insert(user.clone()): DashSet's
\* insert returns true when the set did not hold the value
UpdateTrackedUserInsert(p, user, dirty) ==
    /\ Start(p, "update_tracked_user", <<user, dirty>>)
    /\ tmp' = [tmp EXCEPT ![p] = <<user \notin tracked_users_cache>>]
    /\ tracked_users_cache' = tracked_users_cache \cup {user}
    /\ Goto(p, "update_dirty")
    /\ UNCHANGED <<db, account_info, pickle_key, session_cache,
                   users_for_key_query_cache, tx, ret, input>>

\* the if of update_tracked_user with the remove left out
UpdateTrackedUserDirtyInsertOnly(p) ==
    /\ pc[p] = "update_dirty"
    /\ users_for_key_query_cache' =
          IF arg[p][2] THEN users_for_key_query_cache \cup {arg[p][1]}
          ELSE users_for_key_query_cache
    /\ Goto(p, "update_put")
    /\ UNCHANGED <<db, account_info, pickle_key, session_cache, tracked_users_cache,
                   op, arg, tx, tmp, ret, input>>

\* if dirty { users_for_key_query_cache.insert } else { .remove }
UpdateTrackedUserDirty(p) ==
    /\ pc[p] = "update_dirty"
    /\ users_for_key_query_cache' =
          IF arg[p][2] THEN users_for_key_query_cache \cup {arg[p][1]}
          ELSE users_for_key_query_cache \ {arg[p][1]}
    /\ Goto(p, "update_put")
    /\ UNCHANGED <<db, account_info, pickle_key, session_cache, tracked_users_cache,
                   op, arg, tx, tmp, ret, input>>

\* UpdateTrackedUserPut with the flag stored as true whatever dirty is
UpdateTrackedUserPutTrue(p) ==
    /\ pc[p] = "update_put"
    /\ \/ /\ tx' = [tx EXCEPT ![p] =
                      [OpenTx({TRACKED_USERS}) EXCEPT
                          !.writes = <<PutOp(TRACKED_USERS, arg[p][1], Serde("bool", TRUE), FALSE)>>]]
          /\ Goto(p, "update_commit")
          /\ UNCHANGED ret
       \/ Finish(p, Err("IndexedDatabase")) /\ UNCHANGED tx
    /\ UNCHANGED <<db, memory, op, arg, tmp, input>>

\* the read-write transaction on tracked_users and the put of the flag under the
\* user id; there is no await from the start of the call to here
UpdateTrackedUserPut(p) ==
    /\ pc[p] = "update_put"
    /\ \/ /\ tx' = [tx EXCEPT ![p] =
                      [OpenTx({TRACKED_USERS}) EXCEPT
                          !.writes = <<PutOp(TRACKED_USERS, arg[p][1], Serde("bool", arg[p][2]), FALSE)>>]]
          /\ Goto(p, "update_commit")
          /\ UNCHANGED ret
       \/ Finish(p, Err("IndexedDatabase")) /\ UNCHANGED tx
    /\ UNCHANGED <<db, memory, op, arg, tmp, input>>

\* tx.await.into_result()?; Ok(already_added)
UpdateTrackedUserCommit(p) ==
    /\ pc[p] = "update_commit"
    /\ \/ /\ db' = ApplyAll(db, tx[p].writes)
          /\ tx' = [tx EXCEPT ![p].state = "committed"]
          /\ Finish(p, Ok(tmp[p][1]))
       \/ /\ db' = db
          /\ tx' = [tx EXCEPT ![p].state = "aborted"]
          /\ Finish(p, Err("IndexedDatabase"))
    /\ UNCHANGED <<memory, op, arg, tmp, input>>

\* load_tracked_users: the read-only transaction and get_all_keys().await.  The
\* transaction keeps writers of tracked_users out until it ends, so the loop reads
\* the store as it is now: tmp holds the pickle of the account, the store and the
\* keys that are left.
LoadTrackedUsersKeys(p) ==
    /\ pc[p] = "load_account_tracked"
    /\ \/ /\ tmp' = [tmp EXCEPT ![p] =
                        <<Unwrap(tmp[p]), db[TRACKED_USERS], SortKeys(DOMAIN db[TRACKED_USERS])>>]
          /\ Goto(p, "load_tracked_insert")
          /\ UNCHANGED ret
       \/ Finish(p, Err("IndexedDatabase")) /\ UNCHANGED tmp
    /\ UNCHANGED <<db, memory, op, arg, tx, input>>

\* LoadTrackedUsersInsert with the insert into the tracked set left out
LoadTrackedUsersInsertSkipped(p) ==
    /\ pc[p] = "load_tracked_insert"
    /\ tmp[p][3] # <<>>
    /\ \/ Goto(p, "load_tracked_dirty") /\ UNCHANGED ret
       \/ Finish(p, Err("IndexedDatabase"))
    /\ UNCHANGED <<db, memory, op, arg, tx, tmp, input>>

\* os.get(&user_id)?.await? of the next key, then the key as a user id: continue
\* when it is none, tracked_users_cache.insert when it is one
LoadTrackedUsersInsert(p) ==
    /\ pc[p] = "load_tracked_insert"
    /\ tmp[p][3] # <<>>
    /\ \/ /\ ValidUserId(Head(tmp[p][3]))
          /\ tracked_users_cache' = tracked_users_cache \cup {Head(tmp[p][3])}
          /\ Goto(p, "load_tracked_dirty")
          /\ UNCHANGED <<ret, tmp>>
       \/ /\ ~ValidUserId(Head(tmp[p][3]))
          /\ tmp' = [tmp EXCEPT ![p][3] = Tail(@)]
          /\ UNCHANGED <<pc, ret, tracked_users_cache>>
       \/ /\ Finish(p, Err("IndexedDatabase"))
          /\ UNCHANGED <<tracked_users_cache, tmp>>
    /\ UNCHANGED <<db, account_info, pickle_key, session_cache,
                   users_for_key_query_cache, op, arg, tx, input>>

\* if dirty { users_for_key_query_cache.insert(user) }, and on to the next key
LoadTrackedUsersDirty(p) ==
    /\ pc[p] = "load_tracked_dirty"
    /\ users_for_key_query_cache' =
          IF DirtyFlag(tmp[p][2], Head(tmp[p][3]))
          THEN users_for_key_query_cache \cup {Head(tmp[p][3])}
          ELSE users_for_key_query_cache
    /\ tmp' = [tmp EXCEPT ![p][3] = Tail(@)]
    /\ Goto(p, "load_tracked_insert")
    /\ UNCHANGED <<db, account_info, pickle_key, session_cache, tracked_users_cache,
                   op, arg, tx, ret, input>>

\* after the loop: from_pickle(pickle.into_serde()?, ..)? and the write of
\* account_info
LoadAccountUnpickle(p) ==
    /\ pc[p] = "load_tracked_insert"
    /\ tmp[p][3] = <<>>
    /\ LET v == tmp[p][1] IN
       IF ~CanDeser("pickle", v)
       THEN Finish(p, Err("Serialization")) /\ UNCHANGED account_info
       ELSE IF ~CanUnpickle(Deser(v), pickle_key)
       THEN Finish(p, Err("OlmAccount")) /\ UNCHANGED account_info
       ELSE /\ account_info' = Some(AccountInfoOf(Unpickle(Deser(v), pickle_key)))
            /\ Finish(p, Ok(Some(Unpickle(Deser(v), pickle_key))))
    /\ UNCHANGED <<db, pickle_key, session_cache, tracked_users_cache,
                   users_for_key_query_cache, op, arg, tx, tmp, input>>

-----------------------------------------------------------------------------
(* SpecTracked: on a store with an account, update_tracked_user and load_account
   calls of two tasks overlap;  SpecTrackedSequential: one task *)

\* the strings "@b:s", "@c:s"
Users == {<<64, 98, 58, 115>>, <<64, 99, 58, 115>>}

\* get_loaded_store: save_account has stored the account
LoadedStore ==
    /\ db = ApplyAll(EmptyDb, AccountOps([NoChanges EXCEPT !.account = Some(TheAccount)],
                                         DEFAULT_PICKLE))
    /\ account_info = Some(AccountInfoOf(TheAccount))
    /\ pickle_key = DEFAULT_PICKLE
    /\ session_cache = <<>>
    /\ tracked_users_cache = {}
    /\ users_for_key_query_cache = {}
    /\ pc = [p \in Procs |-> "idle"]
    /\ op = [p \in Procs |-> ""]
    /\ arg = [p \in Procs |-> <<>>]
    /\ tx = [p \in Procs |-> NoTx]
    /\ tmp = [p \in Procs |-> <<>>]
    /\ ret = [p \in Procs |-> NoRet]

InitTracked == LoadedStore /\ input = None

UpdateTrackedUser(p) ==
    \E user \in Users, dirty \in BOOLEAN : UpdateTrackedUserInsert(p, user, dirty)

UpdateStep(p) ==
    \/ UpdateTrackedUser(p)
    \/ UpdateTrackedUserDirty(p)
    \/ UpdateTrackedUserPut(p)
    \/ UpdateTrackedUserCommit(p)
    \/ Return(p) /\ UNCHANGED input

LoadStep(p) ==
    \/ LoadAccountBegin(p)
    \/ LoadAccountGet(p)
    \/ LoadTrackedUsersKeys(p)
    \/ LoadTrackedUsersInsert(p)
    \/ LoadTrackedUsersDirty(p)
    \/ LoadAccountUnpickle(p)

NextTracked ==
    \/ \E p \in Procs : UpdateStep(p)
    \/ \E p \in Callers : LoadStep(p)
    \/ Reopen

SpecTracked == InitTracked /\ [][NextTracked]_vars

NextTrackedSequential ==
    \/ \E p \in Callers : UpdateStep(p) \/ LoadStep(p)
    \/ Reopen

SpecTrackedSequential == InitTracked /\ [][NextTrackedSequential]_vars

-----------------------------------------------------------------------------
(* SpecTrackedRestart: one task updates tracked users on a store with an account,
   the store is dropped and opened again by its name, and load_account runs *)

\* what the caller knows: for every user the flag of its last update that returned
\* Ok, whether an update returned an error, and whether the store was opened again
NoUpdates == [last |-> [u \in Users |-> "none"], failed |-> FALSE, closed |-> FALSE]

InitTrackedRestart == LoadedStore /\ input = NoUpdates

\* the caller goes on as long as its updates succeed
TrackedRestartUpdate(p) == ~input.failed /\ UpdateTrackedUser(p)

TrackedRestartLoad(p) == ~input.failed /\ LoadAccountBegin(p)

\* the caller takes the result of a call and notes what an update has stored
TrackedRestartReturn(p) ==
    /\ Return(p)
    /\ input' =
        IF op[p] # "update_tracked_user" THEN input
        ELSE IF ret[p].kind # "ok" THEN [input EXCEPT !.failed = TRUE]
        ELSE [input EXCEPT !.last[arg[p][1]] = IF arg[p][2] THEN "dirty" ELSE "clean"]

\* drop(store), then open_with_name(name)
TrackedRestart == ~input.failed /\ ReopenStore /\ input' = [input EXCEPT !.closed = TRUE]

NextTrackedRestart ==
    \/ \E p \in Callers :
        \/ TrackedRestartUpdate(p)
        \/ UpdateTrackedUserDirty(p)
        \/ UpdateTrackedUserPut(p)
        \/ UpdateTrackedUserCommit(p)
        \/ TrackedRestartLoad(p)
        \/ LoadAccountGet(p)
        \/ LoadTrackedUsersKeys(p)
        \/ LoadTrackedUsersInsert(p)
        \/ LoadTrackedUsersDirty(p)
        \/ LoadAccountUnpickle(p)
        \/ TrackedRestartReturn(p)
    \/ TrackedRestart

SpecTrackedRestart == InitTrackedRestart /\ [][NextTrackedRestart]_vars

-----------------------------------------------------------------------------
(* SpecLoad: load_account on a new instance of a store whose tracked_users object
   store holds any keys and values, as an earlier or another writer of the
   database may have left them *)

\* the string "x", a key that is no user id
OtherKeys == {<<120>>}

\* the values of the tracked_users store: the two booleans, a string, and
\* undefined, for which get gives None as for a key that is missing
FlagValues ==
    {Serde("bool", TRUE), Serde("bool", FALSE), Serde("string", <<120>>),
     Serde("undefined", <<>>)}

StoredFlags == UNION {[keys -> FlagValues] : keys \in SUBSET (Users \cup OtherKeys)}

\* get_store on the name of a database that holds an account
InitLoad ==
    /\ \E flags \in StoredFlags :
          db = [ApplyAll(EmptyDb, AccountOps([NoChanges EXCEPT !.account = Some(TheAccount)],
                                             DEFAULT_PICKLE))
                  EXCEPT ![TRACKED_USERS] = flags]
    /\ account_info = None
    /\ pickle_key = DEFAULT_PICKLE
    /\ session_cache = <<>>
    /\ tracked_users_cache = {}
    /\ users_for_key_query_cache = {}
    /\ pc = [p \in Procs |-> "idle"]
    /\ op = [p \in Procs |-> ""]
    /\ arg = [p \in Procs |-> <<>>]
    /\ tx = [p \in Procs |-> NoTx]
    /\ tmp = [p \in Procs |-> <<>>]
    /\ ret = [p \in Procs |-> NoRet]
    /\ input = None

NextLoad ==
    \/ \E p \in Callers :
        \/ LoadStep(p)
        \/ Return(p) /\ UNCHANGED input
    \/ Reopen

SpecLoad == InitLoad /\ [][NextLoad]_vars

-----------------------------------------------------------------------------
(* open_with_passphrase *)

PICKLE_KEY == "pickle_key"

\* the object store "matrix-sdk-crypto" of the database "<prefix>::matrix-sdk-crypto-meta"
MetaStore == "meta/matrix-sdk-crypto"

\* PickleKey::encrypt(passphrase): the key encrypted under a key derived from the
\* passphrase
Encrypt(key, passphrase) == [key |-> key, passphrase |-> passphrase]

\* PickleKey::from_encrypted(passphrase, encrypted): fails unless the passphrase is
\* the one the key was encrypted under
CanDecrypt(passphrase, encrypted) == encrypted.passphrase = passphrase
FromEncrypted(passphrase, encrypted) == encrypted.key

\* PickleKey::new(): a random key
EnvelopeKeys == {"key1", "key2"}

\* The caller has no store (it dropped the one it had).  The meta database is
\* opened and the read-write transaction on its object store is created.
OpenWithPassphraseBegin(p, passphrase) ==
    /\ \A q \in Procs : Idle(q)
    /\ Start(p, "open_with_passphrase", passphrase)
    /\ \/ /\ tx' = [tx EXCEPT ![p] = OpenTx({MetaStore})]
          /\ Goto(p, "open_get")
          /\ UNCHANGED ret
       \/ Finish(p, Err("IndexedDatabase")) /\ UNCHANGED tx
    /\ UNCHANGED <<db, memory, tmp, input>>

\* OpenWithPassphraseGet with the stored key never found
OpenWithPassphraseGetNothing(p) ==
    /\ pc[p] = "open_get"
    /\ \/ /\ tmp' = [tmp EXCEPT ![p] = None]
          /\ Goto(p, "open_key")
          /\ UNCHANGED ret
       \/ Finish(p, Err("IndexedDatabase")) /\ UNCHANGED tmp
    /\ UNCHANGED <<db, memory, op, arg, tx, input>>

\* ob.get(PICKLE_KEY)?.await?.map(|k| k.into_serde()).transpose()?
OpenWithPassphraseGet(p) ==
    /\ pc[p] = "open_get"
    /\ LET store_key == Get(db[MetaStore], PICKLE_KEY) IN
       \/ /\ IsSome(store_key) => CanDeser("encrypted_key", Unwrap(store_key))
          /\ tmp' = [tmp EXCEPT ![p] = store_key]
          /\ Goto(p, "open_key")
          /\ UNCHANGED ret
       \/ /\ IsSome(store_key) /\ ~CanDeser("encrypted_key", Unwrap(store_key))
          /\ Finish(p, Err("Serialization"))
          /\ UNCHANGED tmp
       \/ Finish(p, Err("IndexedDatabase")) /\ UNCHANGED tmp
    /\ UNCHANGED <<db, memory, op, arg, tx, input>>

\* the None arm of the match: PickleKey::new(), encrypt, put_key_val and
\* tx.await.into_result()?
GenerateKey(p) ==
    \E key \in EnvelopeKeys :
        LET put == PutOp(MetaStore, PICKLE_KEY,
                         Serde("encrypted_key", Encrypt(key, arg[p])), TRUE)
        IN  \/ /\ db' = ApplyAll(db, <<put>>)
               /\ tx' = [tx EXCEPT ![p].writes = <<put>>, ![p].state = "committed"]
               /\ tmp' = [tmp EXCEPT ![p] = <<key>>]
               /\ Goto(p, "open_helper")
               /\ UNCHANGED ret
            \/ /\ db' = db
               /\ tx' = [tx EXCEPT ![p].writes = <<put>>, ![p].state = "aborted"]
               /\ Finish(p, Err("IndexedDatabase"))
               /\ UNCHANGED tmp
            \/ /\ Finish(p, Err("Serialization"))
               /\ UNCHANGED <<db, tx, tmp>>

\* OpenWithPassphraseKey with a key that does not decrypt replaced by a new one
OpenWithPassphraseKeyReplacing(p) ==
    /\ pc[p] = "open_key"
    /\ IF IsSome(tmp[p]) /\ CanDecrypt(arg[p], Deser(Unwrap(tmp[p])))
       THEN /\ tmp' = [tmp EXCEPT ![p] = <<FromEncrypted(arg[p], Deser(Unwrap(tmp[p])))>>]
            /\ Goto(p, "open_helper")
            /\ UNCHANGED <<db, tx, ret>>
       ELSE GenerateKey(p)
    /\ UNCHANGED <<memory, op, arg, input>>

\* let pickle_key = match store_key { Some(key) => from_encrypted, None => new }
OpenWithPassphraseKey(p) ==
    /\ pc[p] = "open_key"
    /\ IF IsSome(tmp[p])
       THEN IF CanDecrypt(arg[p], Deser(Unwrap(tmp[p])))
            THEN /\ tmp' = [tmp EXCEPT ![p] = <<FromEncrypted(arg[p], Deser(Unwrap(tmp[p])))>>]
                 /\ Goto(p, "open_helper")
                 /\ UNCHANGED <<db, tx, ret>>
            ELSE /\ Finish(p, Err("UnpicklingError"))
                 /\ UNCHANGED <<db, tx, tmp>>
       ELSE GenerateKey(p)
    /\ UNCHANGED <<memory, op, arg, input>>

\* open_helper(prefix, Some(pickle_key)): the store instance with the key and with
\* empty caches
OpenHelper(p) ==
    /\ pc[p] = "open_helper"
    /\ \/ /\ account_info' = None
          /\ pickle_key' = tmp[p][1]
          /\ session_cache' = <<>>
          /\ tracked_users_cache' = {}
          /\ users_for_key_query_cache' = {}
          /\ Finish(p, Ok(tmp[p][1]))
       \/ /\ Finish(p, Err("IndexedDatabase"))
          /\ UNCHANGED memory
    /\ UNCHANGED <<db, op, arg, tx, tmp, input>>

-----------------------------------------------------------------------------
(* SpecPassphrase: one task opens the store of one name with passphrases, again
   and again *)

Passphrases == {"secret_passphrase", "wrong_passphrase"}

MaxAttempts == 2

\* what the caller knows: the keys of the stores it got, and how many opens failed
\* with UnpicklingError
NoOpens == [yielded |-> {}, unpickling |-> 0]

InitPassphrase ==
    /\ db = (MetaStore :> <<>>) @@ EmptyDb
    /\ account_info = None
    /\ pickle_key = DEFAULT_PICKLE
    /\ session_cache = <<>>
    /\ tracked_users_cache = {}
    /\ users_for_key_query_cache = {}
    /\ pc = [p \in Procs |-> "idle"]
    /\ op = [p \in Procs |-> ""]
    /\ arg = [p \in Procs |-> <<>>]
    /\ tx = [p \in Procs |-> NoTx]
    /\ tmp = [p \in Procs |-> <<>>]
    /\ ret = [p \in Procs |-> NoRet]
    /\ input = NoOpens

OpenWithPassphrase(p) == \E passphrase \in Passphrases : OpenWithPassphraseBegin(p, passphrase)

\* the caller takes the result of the open
PassphraseReturn(p) ==
    /\ Return(p)
    /\ input' =
        IF ret[p].kind = "ok" THEN [input EXCEPT !.yielded = @ \cup {ret[p].val}]
        ELSE IF ret[p] = Err("UnpicklingError") /\ input.unpickling < MaxAttempts
        THEN [input EXCEPT !.unpickling = @ + 1]
        ELSE input

NextPassphrase ==
    \E p \in Callers :
        \/ OpenWithPassphrase(p)
        \/ OpenWithPassphraseGet(p)
        \/ OpenWithPassphraseKey(p)
        \/ OpenHelper(p)
        \/ PassphraseReturn(p)

SpecPassphrase == InitPassphrase /\ [][NextPassphrase]_vars

-----------------------------------------------------------------------------
(* SpecScan: get_sessions on a loaded store whose session store holds records of
   sender keys that are prefixes of one another, some of them not decodable *)

\* the sender keys "a", "ab", "a+": base64 strings, with a character below ':'
\* and one above ';' after the common prefix
ScanKeys == {<<97>>, <<97, 98>>, <<97, 43>>}

\* the sessions "a:1", "a:2", "ab:1", "a+:1"
ScanSessions ==
    {s \in [sender_key : ScanKeys, session_id : SessionIds] :
        s.sender_key = <<97>> \/ s.session_id = <<49>>}

\* a record of the session store: the pickle of the session under the key of the
\* store, its pickle under another key, or a value that is no pickle
StoredSession(s, state) ==
    IF state = "pickled" THEN Serde("pickle", Pickle(s, DEFAULT_PICKLE))
    ELSE IF state = "foreign" THEN Serde("pickle", Pickle(s, "another key"))
    ELSE Serde("string", <<120>>)

SessionStoreOf(held) ==
    LET there == {s \in ScanSessions : held[s] # "absent"} IN
    [k \in {Join(s.sender_key, s.session_id) : s \in there} |->
        LET s == CHOOSE x \in there : Join(x.sender_key, x.session_id) = k
        IN  StoredSession(s, held[s])]

InitScan ==
    /\ \E held \in [ScanSessions -> {"absent", "pickled", "foreign", "corrupt"}] :
          db = [ApplyAll(EmptyDb, AccountOps([NoChanges EXCEPT !.account = Some(TheAccount)],
                                             DEFAULT_PICKLE))
                  EXCEPT ![SESSION] = SessionStoreOf(held)]
    /\ account_info = Some(AccountInfoOf(TheAccount))
    /\ pickle_key = DEFAULT_PICKLE
    /\ session_cache = <<>>
    /\ tracked_users_cache = {}
    /\ users_for_key_query_cache = {}
    /\ pc = [p \in Procs |-> "idle"]
    /\ op = [p \in Procs |-> ""]
    /\ arg = [p \in Procs |-> <<>>]
    /\ tx = [p \in Procs |-> NoTx]
    /\ tmp = [p \in Procs |-> <<>>]
    /\ ret = [p \in Procs |-> NoRet]
    /\ input = None

ScanSessionsOf(p) == \E k \in ScanKeys : GetSessionsBegin(p, k)

NextScan ==
    \E p \in Callers :
        \/ ScanSessionsOf(p)
        \/ GetSessionsScan(p)
        \/ GetSessionsSet(p)
        \/ Return(p) /\ UNCHANGED input

SpecScan == InitScan /\ [][NextScan]_vars

-----------------------------------------------------------------------------
(* SpecRange: make_range of a prefix, and a key tested against the range *)

\* the characters '+', ':', ';', 'a'
RangeChars == {43, Colon, Semi, 97}

MaxKeyLen == 3

RangeKeys == UNION {[1..n -> RangeChars] : n \in 0..MaxKeyLen}

\* the prefixes "a", "+", "aa", "a+", "+a", "++"
RangePrefixes == UNION {[1..n -> {43, 97}] : n \in 1..2}

\* input: the prefix, the key, and whether the range of the prefix holds the key
InitRange ==
    /\ InitStore
    /\ input \in [prefix : RangePrefixes, key : RangeKeys, result : {None}]

\* the engine tests the key against make_range(prefix)
TestKey ==
    /\ input.result = None
    /\ input' = [input EXCEPT !.result = Some(InRange(input.key, make_range(input.prefix)))]
    /\ UNCHANGED <<db, memory, pc, op, arg, tx, tmp, ret>>

NextRange == TestKey

SpecRange == InitRange /\ [][NextRange]_vars

-----------------------------------------------------------------------------
(* SpecLookup: on a store that holds one unsent request, one save_changes call of
   a task overlaps the get_secret_request_by_info calls of another *)

\* the request "r1" for the secret "m", not sent out
StoredRequest == [request_id |-> TheRequestId, info |-> TheInfo, sent_out |-> FALSE]

\* the database after save_changes has saved the request
StoredDb ==
    ApplyAll(EmptyDb, KeyRequestOps([NoChanges EXCEPT !.key_requests = <<StoredRequest>>]))

\* input: whether the save_changes call has started
InitLookup ==
    /\ db = StoredDb
    /\ account_info = None
    /\ pickle_key = DEFAULT_PICKLE
    /\ session_cache = <<>>
    /\ tracked_users_cache = {}
    /\ users_for_key_query_cache = {}
    /\ pc = [p \in Procs |-> "idle"]
    /\ op = [p \in Procs |-> ""]
    /\ arg = [p \in Procs |-> <<>>]
    /\ tx = [p \in Procs |-> NoTx]
    /\ tmp = [p \in Procs |-> <<>>]
    /\ ret = [p \in Procs |-> NoRet]
    /\ input = FALSE

SaveOnce(p) ==
    /\ ~input
    /\ \E c \in RequestChanges(Requests) : SaveChangesBegin(p, c)
    /\ input' = TRUE

NextLookup ==
    \/ \E p \in Callers :
        \/ SaveOnce(p)
        \/ SaveChangesPickle(p)
        \/ SaveChangesWrite(p)
        \/ SaveChangesCommit(p)
    \/ \E p \in Procs \ Callers :
        \/ GetSecretRequestByInfo(p)
        \/ GetSecretRequestByInfoHelper(p)
    \/ \E p \in Procs : Return(p) /\ UNCHANGED input

SpecLookup == InitLookup /\ [][NextLookup]_vars

-----------------------------------------------------------------------------
(* SpecLenient: the bulk reads on a loaded store whose session, device and unsent
   request stores hold records that decode and records that do not *)

\* the devices "D" and "E" of the user "@b"
LenientDevices == [user_id : {TheDevice.user_id}, device_id : {<<68>>, <<69>>}]

\* the unsent requests "r1" and "r2" for the secret "m"
LenientRequests == [request_id : RequestIds, info : {TheInfo}, sent_out : {FALSE}]

\* a store of plain JSON records: each record is absent, stored, or replaced by
\* a value that does not deserialize to its type
JsonStoreOf(type, key_of, held) ==
    LET there == {r \in DOMAIN key_of : held[r] # "absent"} IN
    [k \in {key_of[r] : r \in there} |->
        LET r == CHOOSE x \in there : key_of[x] = k
        IN  IF held[r] = "stored" THEN Serde(type, r) ELSE Serde("string", <<120>>)]

DeviceKey == [d \in LenientDevices |-> Join(d.user_id, d.device_id)]
RequestKey == [r \in LenientRequests |-> r.request_id]

InitLenient ==
    /\ \E sessions \in [ScanSessions -> {"absent", "pickled", "foreign", "corrupt"}],
          devices \in [LenientDevices -> {"absent", "stored", "corrupt"}],
          requests \in [LenientRequests -> {"absent", "stored", "corrupt"}] :
          /\ \A s \in ScanSessions : s.sender_key # <<97>> => sessions[s] = "pickled"
          /\ db = [ApplyAll(EmptyDb,
                            AccountOps([NoChanges EXCEPT !.account = Some(TheAccount)],
                                       DEFAULT_PICKLE))
                     EXCEPT ![SESSION] = SessionStoreOf(sessions),
                            ![DEVICES] = JsonStoreOf("device", DeviceKey, devices),
                            ![UNSENT_SECRET_REQUESTS] =
                                JsonStoreOf("request", RequestKey, requests)]
    /\ account_info = Some(AccountInfoOf(TheAccount))
    /\ pickle_key = DEFAULT_PICKLE
    /\ session_cache = <<>>
    /\ tracked_users_cache = {}
    /\ users_for_key_query_cache = {}
    /\ pc = [p \in Procs |-> "idle"]
    /\ op = [p \in Procs |-> ""]
    /\ arg = [p \in Procs |-> <<>>]
    /\ tx = [p \in Procs |-> NoTx]
    /\ tmp = [p \in Procs |-> <<>>]
    /\ ret = [p \in Procs |-> NoRet]
    /\ input = None

NextLenient ==
    \E p \in Callers :
        \/ ScanSessionsOf(p)
        \/ GetSessionsScan(p)
        \/ GetSessionsSet(p)
        \/ GetUserDevices(p, TheDevice.user_id)
        \/ GetUnsentSecretRequests(p)
        \/ Return(p) /\ UNCHANGED input

SpecLenient == InitLenient /\ [][NextLenient]_vars

-----------------------------------------------------------------------------
(* SpecPoint: the point reads on a loaded store whose device, identity and inbound
   group session are absent, stored, or stored as a value that does not decode *)

InitPoint ==
    /\ \E device \in {"absent", "stored", "corrupt"},
          identity \in {"absent", "stored", "corrupt"},
          session \in {"absent", "pickled", "foreign", "corrupt"} :
          db = [ApplyAll(EmptyDb,
                         AccountOps([NoChanges EXCEPT !.account = Some(TheAccount)],
                                    DEFAULT_PICKLE))
                  EXCEPT ![DEVICES] =
                             JsonStoreOf("device",
                                 [d \in {TheDevice} |-> Join(d.user_id, d.device_id)],
                                 [d \in {TheDevice} |-> device]),
                         ![IDENTITIES] =
                             JsonStoreOf("identity",
                                 [i \in {TheIdentity} |-> i.user_id],
                                 [i \in {TheIdentity} |-> identity]),
                         ![INBOUND_GROUP_SESSIONS] =
                             IF session = "absent" THEN <<>>
                             ELSE LET s == TheInboundGroupSession
                                  IN  Join(Join(s.room_id, s.sender_key), s.session_id)
                                        :> StoredSession(s, session)]
    /\ account_info = Some(AccountInfoOf(TheAccount))
    /\ pickle_key = DEFAULT_PICKLE
    /\ session_cache = <<>>
    /\ tracked_users_cache = {}
    /\ users_for_key_query_cache = {}
    /\ pc = [p \in Procs |-> "idle"]
    /\ op = [p \in Procs |-> ""]
    /\ arg = [p \in Procs |-> <<>>]
    /\ tx = [p \in Procs |-> NoTx]
    /\ tmp = [p \in Procs |-> <<>>]
    /\ ret = [p \in Procs |-> NoRet]
    /\ input = None

NextPoint ==
    \E p \in Procs :
        \/ GetDevice(p, TheDevice.user_id, TheDevice.device_id)
        \/ GetUserIdentity(p, TheIdentity.user_id)
        \/ GetInboundGroupSession(p, TheInboundGroupSession.room_id,
                                  TheInboundGroupSession.sender_key,
                                  TheInboundGroupSession.session_id)
        \/ Return(p) /\ UNCHANGED input

SpecPoint == InitPoint /\ [][NextPoint]_vars

-----------------------------------------------------------------------------
(* SpecHashes: saves of message hashes, is_message_known and reopen, with calls
   that overlap *)

\* the hashes "h" and "i" of messages of the sender key "a"
Hashes == [sender_key : {<<97>>}, hash : {<<104>>, <<105>>}]

MaxHashes == 2

HashLists == UNION {[1..n -> Hashes] : n \in 0..MaxHashes}

\* changes with hashes, and with a session whose put can fail before or after
\* the hashes are issued
HashChanges ==
    {[NoChanges EXCEPT !.sessions = ss, !.message_hashes = hs] :
        ss \in OneOrNone(TheSession), hs \in HashLists}

SaveHashes(p) == \E c \in HashChanges : SaveChangesBegin(p, c) /\ UNCHANGED input

\* reopen, noted for the caller
ReopenNoting == ReopenStore /\ input' = Some("reopened")

NextHashes ==
    \/ \E p \in Callers :
        \/ SaveHashes(p)
        \/ SaveChangesPickle(p)
        \/ SaveChangesWrite(p)
        \/ SaveChangesCommit(p)
        \/ SaveChangesCache(p)
    \/ \E p \in Procs :
        \/ \E h \in Hashes : IsMessageKnown(p, h)
        \/ Return(p) /\ UNCHANGED input
    \/ ReopenNoting

SpecHashes == Init /\ [][NextHashes]_vars

-----------------------------------------------------------------------------
(* SpecDevices: one task that saves device changes, reads devices and reopens
   the store; input notes the devices the last save that returned Ok deleted,
   whether the store was reopened since, and the keys that save put *)

MaxDevices == 1

DeviceLists == UNION {[1..n -> LenientDevices] : n \in 0..MaxDevices}

DeviceChanges ==
    {[NoChanges EXCEPT !.devices = [new |-> n, changed |-> c, deleted |-> d]] :
        n \in DeviceLists, c \in DeviceLists, d \in DeviceLists}

SaveDevices(p) == \E c \in DeviceChanges : SaveChangesBegin(p, c) /\ input' = None

DevicesReturn(p) ==
    /\ Return(p)
    /\ input' = IF op[p] # "save_changes" THEN input
                ELSE IF ret[p].kind # "ok" THEN None
                ELSE <<{arg[p].devices.deleted[i] : i \in DOMAIN arg[p].devices.deleted},
                       FALSE,
                       {DevicePutOps(arg[p])[i].key : i \in DOMAIN DevicePutOps(arg[p])}>>

DevicesReopen ==
    /\ ReopenStore
    /\ input' = IF input = None THEN None ELSE <<input[1], TRUE, input[3]>>

NextDevices ==
    \/ \E p \in Callers :
        \/ SaveDevices(p)
        \/ SaveChangesPickle(p)
        \/ SaveChangesWrite(p)
        \/ SaveChangesCommit(p)
        \/ \E d \in LenientDevices : GetDevice(p, d.user_id, d.device_id)
        \/ GetUserDevices(p, TheDevice.user_id)
        \/ DevicesReturn(p)
    \/ DevicesReopen

SpecDevices == Init /\ [][NextDevices]_vars

-----------------------------------------------------------------------------
(* UtdCause::determine *)

\* the values a field of the unsigned area takes here: none, the three
\* memberships, a string that is no membership, and the number 3
FieldValues == {"absent", "leave", "invite", "join", "Leave", "3"}

\* #[serde(rename_all = "lowercase")] enum Membership
Membership == {"leave", "invite", "join"}

\* UnsignedWithMembership with the alias of the field not accepted
UnsignedWithMembershipStableOnly(unsigned) ==
    IF unsigned.kind # "object" THEN Err("invalid type")
    ELSE IF unsigned.membership = "absent" THEN Err("missing field")
    ELSE IF unsigned.membership \notin Membership THEN Err("invalid value")
    ELSE Ok(unsigned.membership)

\* Deserialize for UnsignedWithMembership: one field, found under its name or
\* under its alias; found under both it is a duplicate field, which is an error
UnsignedWithMembership(unsigned) ==
    IF unsigned.kind # "object" THEN Err("invalid type")
    ELSE IF unsigned.membership # "absent" /\ unsigned.alias # "absent"
    THEN Err("duplicate field")
    ELSE IF unsigned.membership = "absent" /\ unsigned.alias = "absent"
    THEN Err("missing field")
    ELSE LET v == IF unsigned.membership # "absent" THEN unsigned.membership
                  ELSE unsigned.alias
         IN  IF v \in Membership THEN Ok(v) ELSE Err("invalid value")

\* raw_event.get_field::<UnsignedWithMembership>("unsigned")
GetFieldUnsigned(raw_event) ==
    IF raw_event.kind \in {"missing", "null"} THEN Ok(None)
    ELSE LET r == UnsignedWithMembership(raw_event) IN
         IF r.kind = "ok" THEN Ok(Some(r.val)) ELSE r

\* determine with the membership looked at whatever the reason is
determineAnyReason(raw_event, unable_to_decrypt_info) ==
    IF /\ IsSome(raw_event)
       /\ GetFieldUnsigned(Unwrap(raw_event)).kind = "ok"
       /\ GetFieldUnsigned(Unwrap(raw_event)).val = Some("leave")
    THEN "SentBeforeWeJoined"
    ELSE "Unknown"

determine(raw_event, unable_to_decrypt_info) ==
    LET reason == unable_to_decrypt_info.reason IN
    IF reason.name \in {"MissingMegolmSession", "UnknownMegolmMessageIndex"}
    THEN IF /\ IsSome(raw_event)
            /\ GetFieldUnsigned(Unwrap(raw_event)).kind = "ok"
            /\ GetFieldUnsigned(Unwrap(raw_event)).val = Some("leave")
         THEN "SentBeforeWeJoined"
         ELSE "Unknown"
    ELSE IF reason.name = "SenderIdentityNotTrusted" /\ reason.level = "VerificationViolation"
    THEN "VerificationViolation"
    ELSE IF reason.name = "SenderIdentityNotTrusted" /\ reason.level = "UnsignedDevice"
    THEN "UnsignedDevice"
    ELSE IF reason.name = "SenderIdentityNotTrusted"
            /\ reason.level \in {"None(MissingDevice)", "None(InsecureSource)"}
    THEN "UnknownDevice"
    ELSE "Unknown"

(* SpecUtd: determine applied to every pair of a raw event and a reason *)

\* the unsigned area of an event: missing, null, no object, or an object with the
\* membership under its name, under its alias, under both or under none
UnsignedAreas ==
    [kind : {"missing", "null", "string"}, membership : {"absent"}, alias : {"absent"}]
    \cup [kind : {"object"}, membership : FieldValues, alias : FieldValues]

RawEvents == {None} \cup {Some(u) : u \in UnsignedAreas}

Reasons ==
    [name : {"Unknown", "MalformedEncryptedEvent", "MissingMegolmSession",
             "UnknownMegolmMessageIndex", "MegolmDecryptionFailure",
             "PayloadDeserializationFailure", "MismatchedIdentityKeys"},
     level : {"-"}]
    \cup [name : {"SenderIdentityNotTrusted"},
          level : {"UnverifiedIdentity", "VerificationViolation", "UnsignedDevice",
                   "None(MissingDevice)", "None(InsecureSource)", "MismatchedSender"}]

\* input: the raw event, the reason, and the cause determine gives
InitUtd ==
    /\ InitStore
    /\ input \in [raw_event : RawEvents, reason : Reasons, cause : {None}]

CallDetermine ==
    /\ input.cause = None
    /\ input' = [input EXCEPT !.cause =
                    Some(determine(input.raw_event,
                                   [session_id |-> None, reason |-> input.reason]))]
    /\ UNCHANGED <<db, memory, pc, op, arg, tx, tmp, ret>>

NextUtd == CallDetermine

SpecUtd == InitUtd /\ [][NextUtd]_vars

-----------------------------------------------------------------------------
(* SpecUnsent: one task saves and deletes gossip requests and lists the unsent
   ones; input notes, for each id, the request of its last upsert that committed
   (none when the id was never upserted or was deleted since), and whether a call
   has returned an error *)

InitUnsent == InitStore /\ input = [last |-> [id \in RequestIds |-> None], failed |-> FALSE]

\* the last request of the id in the list, if there is one
LastOf(rs, id, before) ==
    LET at == {i \in DOMAIN rs : rs[i].request_id = id} IN
    IF at = {} THEN before
    ELSE Some(rs[CHOOSE i \in at : \A j \in at : j <= i])

UnsentReturn(p) ==
    /\ Return(p)
    /\ input' =
         IF ret[p].kind = "err" THEN [input EXCEPT !.failed = TRUE]
         ELSE IF op[p] = "save_changes"
         THEN [input EXCEPT !.last =
                 [id \in RequestIds |-> LastOf(arg[p].key_requests, id, input.last[id])]]
         ELSE IF op[p] = "delete_outgoing_secret_requests"
         THEN [input EXCEPT !.last[arg[p]] = None]
         ELSE input

\* the task stops at the first error a call returns to it
NextUnsent ==
    \E p \in Callers :
        \/ ~input.failed /\ SaveRequests(p)
        \/ SaveChangesPickle(p)
        \/ SaveChangesWrite(p)
        \/ SaveChangesCommit(p)
        \/ ~input.failed /\ DeleteOutgoingSecretRequests(p)
        \/ DeleteOutgoingSecretRequestsRun(p)
        \/ ~input.failed /\ GetUnsentSecretRequests(p)
        \/ UnsentReturn(p)

SpecUnsent == InitUnsent /\ [][NextUnsent]_vars

-----------------------------------------------------------------------------
(* SpecColon: devices of users and with device ids that hold the delimiter ':' *)

\* the users "@a:x" and "@a:x:8", the device ids "D" and "8:D"
ColonUsers == {<<64, 97, 58, 120>>, <<64, 97, 58, 120, 58, 56>>}
ColonDevices == [user_id : ColonUsers, device_id : {<<68>>, <<56, 58, 68>>}]

ColonChanges ==
    {[NoChanges EXCEPT !.devices.new = ds] :
        ds \in UNION {[1..n -> ColonDevices] : n \in 1..MaxDevices}}

SaveColonDevices(p) == \E c \in ColonChanges : SaveChangesBegin(p, c) /\ UNCHANGED input

NextColon ==
    \E p \in Callers :
        \/ SaveColonDevices(p)
        \/ SaveChangesPickle(p)
        \/ SaveChangesWrite(p)
        \/ SaveChangesCommit(p)
        \/ \E u \in ColonUsers : GetUserDevices(p, u)
        \/ Return(p) /\ UNCHANGED input

SpecColon == Init /\ [][NextColon]_vars

-----------------------------------------------------------------------------
(* SpecReadYourWrites: on a loaded store one task saves sessions of the sender key
   "a" while it and another task call get_sessions; input is the set of the
   sessions written by the saves that have returned Ok to their caller.  A
   read-only transaction created while a read-write transaction on the session
   store is live waits for it in the engine: here get_sessions starts and scans
   only while no save_changes transaction is live. *)

InitReadYourWrites == LoadedStore /\ input = {}

SaveSession(p) ==
    /\ \E s \in Sessions : SaveChangesBegin(p, [NoChanges EXCEPT !.sessions = <<s>>])
    /\ UNCHANGED input

NoLiveWrite ==
    \A q \in Procs :
        (op[q] = "save_changes" /\ tx[q].state = "active") => SESSION \notin tx[q].scope

ReadYourWritesReturn(p) ==
    /\ Return(p)
    /\ input' = IF op[p] = "save_changes" /\ ret[p].kind = "ok"
                THEN input \cup {arg[p].sessions[i] : i \in DOMAIN arg[p].sessions}
                ELSE input

NextReadYourWrites ==
    \/ \E p \in Callers :
        \/ SaveSession(p)
        \/ SaveChangesPickle(p)
        \/ SaveChangesWrite(p)
        \/ SaveChangesCommit(p)
        \/ SaveChangesCache(p)
    \/ \E p \in Procs :
        \/ NoLiveWrite /\ GetSessionsBegin(p, TheSession.sender_key)
        \/ NoLiveWrite /\ GetSessionsScan(p)
        \/ GetSessionsSet(p)
        \/ ReadYourWritesReturn(p)

SpecReadYourWrites == InitReadYourWrites /\ [][NextReadYourWrites]_vars

-----------------------------------------------------------------------------
(* Properties *)

Saving(p) == op[p] \in {"save_changes", "save_account"}
Done(p) == pc[p] = "done"
Failed(p) == Done(p) /\ ret[p].kind = "err"
Succeeded(p) == Done(p) /\ ret[p].kind = "ok"
Quiescent == \A p \in Procs : pc[p] \in {"idle", "done"}

\* the call of p took the step
Stepped(p) == pc'[p] # pc[p] \/ tx'[p] # tx[p] \/ tmp'[p] # tmp[p]

\* a save_changes (or save_account) call of p returns an error in the step
FailsNow(p) ==
    /\ op'[p] \in {"save_changes", "save_account"}
    /\ pc[p] # "done"
    /\ pc'[p] = "done"
    /\ ret'[p].kind = "err"

\* C1: save_changes is all-or-nothing: whenever a save_changes call returns an
\* error, at whatever step it failed, the contents of every object store are what
\* they were; no request the call issued before the failure is committed.
SaveChangesAllOrNothing == [][\A p \in Procs : FailsNow(p) => db' = db]_vars

\* what a read of the store returned, when it returned a value
Returned(p, name) == Done(p) /\ op[p] = name /\ ret[p].kind # "err"
Holds(store, key) == key \in DOMAIN db[store]

\* the changes a save_changes call has saved with success (SpecChanges)
Saved == Len(input) = 2 /\ input[2] = "ok"
Written == input[1]

\* C2: round trip: after save_changes succeeded, every entity it wrote is returned
\* unchanged by the read of that entity, whenever the read returns at all
\* (account, private identity, session, inbound and outbound group session,
\* device, identity, message hash, gossip request).
RoundTrip ==
    \A p \in Procs :
        Saved =>
        /\ Returned(p, "load_account") /\ IsSome(Written.account)
            => ret[p] = Ok(Written.account)
        /\ Returned(p, "load_identity") /\ IsSome(Written.private_identity)
            => ret[p] = Ok(Written.private_identity)
        /\ Returned(p, "get_sessions")
            => \A i \in DOMAIN Written.sessions :
                  Written.sessions[i].sender_key = arg[p]
                    => ret[p].kind = "ok"
                       /\ Contains(ret[p].val[1].sessions, Written.sessions[i])
        /\ Returned(p, "get_inbound_group_session")
            => \A i \in DOMAIN Written.inbound_group_sessions :
                  LET s == Written.inbound_group_sessions[i] IN
                  arg[p] = <<s.room_id, s.sender_key, s.session_id>> => ret[p] = Ok(Some(s))
        /\ Returned(p, "get_outbound_group_sessions")
            => \A i \in DOMAIN Written.outbound_group_sessions :
                  LET s == Written.outbound_group_sessions[i] IN
                  arg[p] = s.room_id => ret[p] = Ok(Some(s))
        /\ Returned(p, "get_device")
            => \A d \in {(Written.devices.new \o Written.devices.changed)[i] :
                            i \in DOMAIN (Written.devices.new \o Written.devices.changed)} :
                  (arg[p] = <<d.user_id, d.device_id>> /\ ~Contains(Written.devices.deleted, d))
                    => ret[p] = Ok(Some(d))
        /\ Returned(p, "get_user_devices")
            => \A d \in {(Written.devices.new \o Written.devices.changed)[i] :
                            i \in DOMAIN (Written.devices.new \o Written.devices.changed)} :
                  (arg[p] = d.user_id /\ ~Contains(Written.devices.deleted, d))
                    => /\ ret[p].kind = "ok"
                       /\ d.device_id \in DOMAIN ret[p].val
                       /\ ret[p].val[d.device_id] = d
        /\ Returned(p, "get_user_identity")
            => \A i \in DOMAIN (Written.identities.changed \o Written.identities.new) :
                  LET u == (Written.identities.changed \o Written.identities.new)[i] IN
                  arg[p] = u.user_id => ret[p] = Ok(Some(u))
        /\ Returned(p, "is_message_known")
            => (Contains(Written.message_hashes, arg[p]) => ret[p] = Ok(TRUE))
        /\ Returned(p, "get_outgoing_secret_requests")
            => \A i \in DOMAIN Written.key_requests :
                  arg[p] = Written.key_requests[i].request_id
                    => ret[p] = Ok(Some(Written.key_requests[i]))
        /\ Returned(p, "get_secret_request_by_info")
            => \A i \in DOMAIN Written.key_requests :
                  arg[p] = Written.key_requests[i].info
                    => ret[p] = Ok(Some(Written.key_requests[i]))
        /\ Returned(p, "get_unsent_secret_requests")
            => \A i \in DOMAIN Written.key_requests :
                  ~Written.key_requests[i].sent_out
                    => ret[p].kind = "ok"
                       /\ Contains(ret[p].val, Written.key_requests[i])

\* C3: save_changes changes the session cache only after its transaction has
\* committed: a step of a save_changes call that changes the cache is taken with
\* the transaction committed, and the step in which the call fails leaves the
\* cache as it was.
CacheMergeAfterCommit ==
    [][\A p \in Procs :
          /\ (op'[p] \in {"save_changes", "save_account"} /\ Stepped(p)
                /\ session_cache' # session_cache)
                => tx[p].state = "committed"
          /\ FailsNow(p) => session_cache' = session_cache]_vars

\* a save_changes call with sessions has returned success and the cache holds them
CacheMergeWitness ==
    \E p \in Procs :
        /\ Saving(p) /\ Succeeded(p)
        /\ tx[p].state = "committed"
        /\ arg[p].sessions # <<>>
        /\ \A i \in DOMAIN arg[p].sessions :
              /\ arg[p].sessions[i].sender_key \in DOMAIN session_cache
              /\ Contains(session_cache[arg[p].sessions[i].sender_key].sessions,
                          arg[p].sessions[i])

\* every field of the changes is empty
IsEmptyChanges(c) ==
    /\ ~IsSome(c.account) /\ ~IsSome(c.private_identity)
    /\ c.sessions = <<>> /\ c.inbound_group_sessions = <<>>
    /\ c.outbound_group_sessions = <<>>
    /\ c.devices.new = <<>> /\ c.devices.changed = <<>> /\ c.devices.deleted = <<>>
    /\ c.identities.new = <<>> /\ c.identities.changed = <<>>
    /\ c.message_hashes = <<>> /\ c.key_requests = <<>>

\* C4: save_changes of changes in which every field is empty returns success in
\* its first step, without opening a transaction, and leaves every object store
\* and every in-memory cache unchanged.
EmptyChangesNoOp ==
    [][\A p \in Procs :
          (pc[p] = "idle" /\ op'[p] = "save_changes" /\ IsEmptyChanges(arg'[p]))
            => /\ pc'[p] = "done"
               /\ ret'[p] = Ok("unit")
               /\ tx'[p] = NoTx
               /\ db' = db
               /\ memory' = memory]_vars

\* empty changes were saved on a store that holds data and has a warm cache
EmptyChangesWitness ==
    \E p \in Procs :
        /\ op[p] = "save_changes" /\ Succeeded(p)
        /\ IsEmptyChanges(arg[p])
        /\ tx[p] = NoTx
        /\ db[SESSION] # <<>>
        /\ session_cache # <<>>

\* the object stores the non-empty fields of the changes implicate
Implicated(c) ==
    {s \in ObjectStores :
        \/ s = CORE /\ (IsSome(c.account) \/ IsSome(c.private_identity))
        \/ s = SESSION /\ c.sessions # <<>>
        \/ s = DEVICES
             /\ (c.devices.new # <<>> \/ c.devices.changed # <<>> \/ c.devices.deleted # <<>>)
        \/ s = IDENTITIES /\ (c.identities.new # <<>> \/ c.identities.changed # <<>>)
        \/ s = INBOUND_GROUP_SESSIONS /\ c.inbound_group_sessions # <<>>
        \/ s = OUTBOUND_GROUP_SESSIONS /\ c.outbound_group_sessions # <<>>
        \/ s = OLM_HASHES /\ c.message_hashes # <<>>
        \/ s \in {SECRET_REQUESTS_BY_INFO, UNSENT_SECRET_REQUESTS, OUTGOING_SECRET_REQUESTS}
             /\ c.key_requests # <<>>}

\* C5: the transaction of save_changes spans exactly the object stores implicated
\* by the non-empty fields of the changes, and every request save_changes issues
\* (or is going to issue) goes to one of them.
TxSpansImplicatedStores ==
    \A p \in Procs :
        Saving(p) =>
            /\ tx[p].state # "none" => tx[p].scope = Implicated(arg[p])
            /\ pc[p] \in {"save_pickle", "save_write", "save_cache"} => tx[p].state # "none"
            /\ \A i \in DOMAIN tx[p].writes : tx[p].writes[i].store \in Implicated(arg[p])
            /\ \A i \in DOMAIN WriteOps(arg[p], pickle_key) :
                  WriteOps(arg[p], pickle_key)[i].store \in Implicated(arg[p])
            /\ Succeeded(p) /\ tx[p].state # "none"
                  => {tx[p].writes[i].store : i \in DOMAIN tx[p].writes} = Implicated(arg[p])

\* a save_changes call with an account and a key request committed: its
\* transaction spanned the core store and the three request stores, nothing else
TxSpansWitness ==
    \E p \in Procs :
        /\ Saving(p) /\ Succeeded(p)
        /\ IsSome(arg[p].account) /\ arg[p].key_requests # <<>>
        /\ arg[p].sessions = <<>> /\ arg[p].message_hashes = <<>>
        /\ tx[p].state = "committed"
        /\ tx[p].scope = {CORE, SECRET_REQUESTS_BY_INFO, UNSENT_SECRET_REQUESTS,
                          OUTGOING_SECRET_REQUESTS}

\* C6: every payload is serialized and encrypted before the transaction is
\* entered, so a save_changes call that fails in serialization or encryption has
\* not issued a request to any object store.
SerializeBeforeWrite ==
    \A p \in Procs :
        (Saving(p) /\ Failed(p) /\ ret[p] = Err("Serialization")) => tx[p].writes = <<>>

\* the sessions a scan of the session store for the sender key decodes
StoredSessions(sender_key) ==
    DecodeSessions(GetAllWithKey(db[SESSION], make_range(sender_key)), pickle_key)

\* C7: session cache completeness: with no call in flight, an entry of the session
\* cache for a sender key holds every decodable session that is stored under the
\* sender key.
CacheComplete ==
    Quiescent =>
        \A k \in DOMAIN session_cache :
            \A i \in DOMAIN StoredSessions(k) :
                Contains(session_cache[k].sessions, StoredSessions(k)[i])

\* C8: one shared collection per sender key: two get_sessions calls for the same
\* sender key that have returned hold the same handle.
SingleSharedHandle ==
    \A p, q \in Procs :
        (Returned(p, "get_sessions") /\ Returned(q, "get_sessions") /\ arg[p] = arg[q])
            => ret[p].val[1].handle = ret[q].val[1].handle

\* C9: get_sessions with no AccountInfo set fails with AccountUnset in its first
\* step, for every sender key, whatever is stored or cached; it opens no
\* transaction and changes neither the cache nor the database.
GetSessionsAccountUnset ==
    [][\A p \in Procs :
          (pc[p] = "idle" /\ op'[p] = "get_sessions" /\ ~IsSome(account_info))
            => /\ pc'[p] = "done"
               /\ ret'[p] = Err("AccountUnset")
               /\ tx'[p] = NoTx
               /\ session_cache' = session_cache
               /\ db' = db]_vars

\* get_sessions failed with AccountUnset although an account and a session of the
\* sender key are stored and the cache has an entry for the sender key
AccountUnsetWitness ==
    \E p \in Procs :
        /\ op[p] = "get_sessions" /\ Done(p)
        /\ ret[p] = Err("AccountUnset")
        /\ ~IsSome(account_info)
        /\ Holds(CORE, ACCOUNT)
        /\ arg[p] \in DOMAIN session_cache
        /\ StoredSessions(arg[p]) # <<>>

\* C10: AccountInfo is present only if a load_account or save_account call has
\* completed successfully on this store instance.  Such a call leaves an account
\* in the core store, so with no call in flight and no account stored, AccountInfo
\* is absent; in particular after a save_account whose save_changes failed.
AccountInfoOnlyAfterSuccess ==
    (Quiescent /\ ~Holds(CORE, ACCOUNT)) => ~IsSome(account_info)

\* the store was opened again after saves that all returned Ok, an account among
\* them
Restarted == input.closed /\ ~input.failed /\ IsSome(input.account)

SavedFor(sender_key) == {s \in input.saved : s.sender_key = sender_key}

\* C11: persistence across restart: after save_account and saves that succeeded,
\* on the store opened again by its name load_account returns the account saved
\* last, and get_sessions of a sender key returns exactly the sessions saved with
\* that sender key (sender keys are base64 text, without the delimiter).
PersistenceAcrossRestart ==
    \A p \in Procs :
        Restarted =>
        /\ Returned(p, "load_account") => ret[p] = Ok(input.account)
        /\ Returned(p, "get_sessions")
            => /\ IsSome(ret[p].val)
               /\ {ret[p].val[1].sessions[i] : i \in DOMAIN ret[p].val[1].sessions}
                    = SavedFor(arg[p])

\* after the restart get_sessions has returned the session saved for its sender
\* key while a session of the longer sender key is stored too
PersistenceWitness ==
    \E p \in Procs :
        /\ Restarted
        /\ Returned(p, "get_sessions")
        /\ arg[p] = <<97>>
        /\ SavedFor(<<97>>) # {}
        /\ SavedFor(<<97, 98>>) # {}
        /\ Len(ret[p].val[1].sessions) = Cardinality(SavedFor(<<97>>))

\* the request of the change set at position i is the last one of its id and of
\* its info in the change set: no later upsert of the same transaction replaces it
LastUpsert(rs, i) ==
    \A j \in DOMAIN rs :
        j > i => rs[j].request_id # rs[i].request_id /\ rs[j].info # rs[i].info

\* where an upserted request is to be found
Placed(r) ==
    /\ OutgoingKeyRequest(db, r.request_id) = Ok(Some(r))
    /\ SecretRequestByInfo(db, r.info) = Ok(Some(r))
    /\ IF r.sent_out
       THEN /\ Get(db[OUTGOING_SECRET_REQUESTS], r.request_id) = Some(Serde("request", r))
            /\ ~Holds(UNSENT_SECRET_REQUESTS, r.request_id)
       ELSE /\ Get(db[UNSENT_SECRET_REQUESTS], r.request_id) = Some(Serde("request", r))
            /\ ~Holds(OUTGOING_SECRET_REQUESTS, r.request_id)

SentUnsentExclusive ==
    \A id \in DOMAIN db[UNSENT_SECRET_REQUESTS] : id \notin DOMAIN db[OUTGOING_SECRET_REQUESTS]

\* one id is in the sent store and another in the unsent store while a save is
\* under way and a delete has returned
SentUnsentWitness ==
    /\ DOMAIN db[UNSENT_SECRET_REQUESTS] # {}
    /\ DOMAIN db[OUTGOING_SECRET_REQUESTS] # {}
    /\ \E p, q \in Procs :
        /\ pc[p] = "save_write" /\ tx[p].writes # <<>>
        /\ Succeeded(q) /\ op[q] = "delete_outgoing_secret_requests"

\* the requests in the two id stores
StoredRequests ==
    {Deser(db[UNSENT_SECRET_REQUESTS][id]) : id \in DOMAIN db[UNSENT_SECRET_REQUESTS]}
    \cup {Deser(db[OUTGOING_SECRET_REQUESTS][id]) : id \in DOMAIN db[OUTGOING_SECRET_REQUESTS]}

\* C14: reverse pointer: after calls that all succeeded, every request in the
\* unsent or the sent store has the entry of its info in the by-info store, and
\* the entry is its id.
ReversePointer ==
    (~input /\ \A p \in Procs : ~Failed(p))
        => \A st \in {UNSENT_SECRET_REQUESTS, OUTGOING_SECRET_REQUESTS} :
              \A id \in DOMAIN db[st] :
                  Get(db[SECRET_REQUESTS_BY_INFO], AsKey(Deser(db[st][id]).info)) = Some(id)

\* C15: delete by id: when delete_outgoing_secret_requests has succeeded for an id
\* it found a request under, the lookup by id and the lookup by the info of the
\* request return nothing, the id is in neither id store and the info has no
\* entry; the three deletes are requests of one committed transaction.
DeleteRemoves ==
    \A p \in Procs :
        (Succeeded(p) /\ op[p] = "delete_outgoing_secret_requests" /\ IsSome(tmp[p]))
            => LET r == Unwrap(tmp[p]) IN
               /\ OutgoingKeyRequest(db, arg[p]) = Ok(None)
               /\ SecretRequestByInfo(db, r.info) = Ok(None)
               /\ ~Holds(UNSENT_SECRET_REQUESTS, arg[p])
               /\ ~Holds(OUTGOING_SECRET_REQUESTS, arg[p])
               /\ ~Holds(SECRET_REQUESTS_BY_INFO, AsKey(r.info))
               /\ tx[p].state = "committed"
               /\ tx[p].scope = DeleteScope
               /\ {tx[p].writes[i] : i \in DOMAIN tx[p].writes}
                    = {DelOp(SECRET_REQUESTS_BY_INFO, AsKey(r.info)),
                       DelOp(UNSENT_SECRET_REQUESTS, arg[p]),
                       DelOp(OUTGOING_SECRET_REQUESTS, arg[p])}

\* a sent request was deleted while another request stays stored
DeleteRemovesWitness ==
    \E p \in Procs :
        /\ Succeeded(p) /\ op[p] = "delete_outgoing_secret_requests"
        /\ IsSome(tmp[p]) /\ Unwrap(tmp[p]).sent_out
        /\ DOMAIN db[UNSENT_SECRET_REQUESTS] # {}

\* C16: delete by id is idempotent: a delete_outgoing_secret_requests for an id
\* that is in neither id store changes none of the three request stores, and it
\* returns Ok unless the engine fails; so a second delete changes nothing.
DeleteIdempotent ==
    [][\A p \in Procs :
          (pc[p] = "delete_run" /\ pc'[p] = "done"
           /\ ~Holds(UNSENT_SECRET_REQUESTS, arg[p])
           /\ ~Holds(OUTGOING_SECRET_REQUESTS, arg[p]))
            => /\ db' = db
               /\ ret'[p] \in {Ok("unit"), Err("IndexedDatabase")}]_vars

\* a delete of an id that is not stored has returned Ok, with requests of other
\* ids and info entries in the database
DeleteIdempotentWitness ==
    \E p \in Procs :
        /\ Succeeded(p) /\ op[p] = "delete_outgoing_secret_requests"
        /\ ~IsSome(tmp[p])
        /\ Len(tx[p].writes) = 2
        /\ DOMAIN db[SECRET_REQUESTS_BY_INFO] # {}
        /\ StoredRequests # {}

UpdateSucceeded(p) == Succeeded(p) /\ op[p] = "update_tracked_user"

\* C17: when update_tracked_user(u, dirty) has returned Ok to a task that calls
\* one method at a time, u is in tracked_users(), and u is in users_for_key_query()
\* exactly if dirty is true.
UpdateTrackedUserSets ==
    \A p \in Procs :
        UpdateSucceeded(p)
            => /\ arg[p][1] \in TrackedUsers
               /\ arg[p][2] <=> arg[p][1] \in UsersForKeyQuery

\* an update with dirty false has taken a user out of users_for_key_query that a
\* load_account had put there, another user staying in it
UpdateTrackedUserSetsWitness ==
    \E p \in Procs :
        /\ UpdateSucceeded(p)
        /\ ~arg[p][2]
        /\ Get(db[TRACKED_USERS], arg[p][1]) = Some(Serde("bool", FALSE))
        /\ UsersForKeyQuery # {}
        /\ account_info # None

\* the step of a call that starts update_tracked_user, and the step that returns
\* its boolean
UpdateStarts(p) == Idle(p) /\ op'[p] = "update_tracked_user"
UpdateReturns(p) ==
    op[p] = "update_tracked_user" /\ pc[p] # "done" /\ pc'[p] = "done" /\ ret'[p].kind = "ok"

\* C18: update_tracked_user returns whether the user was in the tracked set
\* before the call: already_added is true exactly if the set held the user when
\* the call started, and that is the boolean the call returns.
ReturnsAlreadyTracked ==
    [][\A p \in Procs :
          /\ UpdateStarts(p) => tmp'[p] = <<arg'[p][1] \in tracked_users_cache>>
          /\ UpdateReturns(p) => ret'[p] = Ok(tmp[p][1])]_vars

\* C19: update_tracked_user returns true exactly if the call has newly inserted
\* the user into the tracked set: already_added is true exactly if the set did not
\* hold the user when the call started, and that is the boolean the call returns.
ReturnsNewlyInserted ==
    [][\A p \in Procs :
          /\ UpdateStarts(p) => tmp'[p] = <<arg'[p][1] \notin tracked_users_cache>>
          /\ UpdateReturns(p) => ret'[p] = Ok(tmp[p][1])]_vars

\* a call for a user that is stored as tracked has returned false, after an
\* earlier call has stored the user
ReturnsNewlyInsertedWitness ==
    \E p \in Procs :
        /\ UpdateSucceeded(p)
        /\ ret[p] = Ok(FALSE)
        /\ tx[p].writes # <<>>
        /\ arg[p][2]
        /\ Get(db[TRACKED_USERS], arg[p][1]) = Some(Serde("bool", TRUE))

\* C20: in every state, between the statements of update_tracked_user and
\* load_account calls that overlap too, users_for_key_query is a subset of
\* tracked_users.
QuerySubsetOfTracked == UsersForKeyQuery \subseteq TrackedUsers

\* load_account is between its insert into tracked_users and its insert into
\* users_for_key_query for a dirty user while an update of the other task is
\* under way
QuerySubsetWitness ==
    \E p, q \in Procs :
        /\ pc[p] = "load_tracked_dirty"
        /\ DirtyFlag(tmp[p][2], Head(tmp[p][3]))
        /\ Head(tmp[p][3]) \notin UsersForKeyQuery
        /\ pc[q] = "update_commit"
        /\ UsersForKeyQuery # {}

\* a load_account call has returned the account on a store that was opened again,
\* all updates so far having succeeded
LoadedAfterRestart(p) ==
    /\ input.closed /\ ~input.failed
    /\ Succeeded(p) /\ op[p] = "load_account" /\ IsSome(ret[p].val)

\* C21: the dirty flag survives restart: when load_account has returned the
\* account on a store opened again by its name after successful update_tracked_user
\* calls, a user is in tracked_users() exactly if it was ever updated, and in
\* users_for_key_query() exactly if its last successful update had dirty = true.
DirtyFlagSurvivesRestart ==
    \A p \in Procs :
        LoadedAfterRestart(p)
            => \A u \in Users :
                  /\ u \in TrackedUsers <=> input.last[u] # "none"
                  /\ u \in UsersForKeyQuery <=> input.last[u] = "dirty"

\* a new instance has loaded one user that was last updated with dirty = false
\* and one that was last updated with dirty = true
DirtyFlagSurvivesWitness ==
    \E p \in Procs :
        /\ LoadedAfterRestart(p)
        /\ tracked_users_cache = Users
        /\ \E u, v \in Users :
              /\ input.last[u] = "clean" /\ input.last[v] = "dirty"
              /\ Get(db[TRACKED_USERS], u) = Some(Serde("bool", FALSE))
              /\ v \in UsersForKeyQuery

\* the stored value is the boolean false
LiteralFalse(v) == v.type = "bool" /\ v.json = FALSE

LoadSucceeded(p) == Succeeded(p) /\ op[p] = "load_account" /\ IsSome(ret[p].val)

\* C22: fail-open decoding on load: when load_account has rebuilt the sets, every
\* stored key that is a user id is in tracked_users, and it is in
\* users_for_key_query exactly if its stored value is not the literal false (true,
\* missing and undecodable values all count as dirty).
FailOpenDecoding ==
    \A p \in Procs :
        LoadSucceeded(p)
            => \A u \in DOMAIN db[TRACKED_USERS] :
                  ValidUserId(u)
                    => /\ u \in TrackedUsers
                       /\ u \in UsersForKeyQuery <=> ~LiteralFalse(db[TRACKED_USERS][u])

\* a load has put a user with a string for its flag and a user with no value into
\* both sets and a user with false into tracked_users alone, and has passed over a
\* key that is no user id
FailOpenWitness ==
    \E p \in Procs :
        /\ LoadSucceeded(p)
        /\ OtherKeys \subseteq DOMAIN db[TRACKED_USERS]
        /\ TrackedUsers = Users
        /\ \E u, v \in Users :
              /\ db[TRACKED_USERS][u].type \in {"string", "undefined"}
              /\ u \in UsersForKeyQuery
              /\ LiteralFalse(db[TRACKED_USERS][v])
              /\ v \notin UsersForKeyQuery

Opening(p) == op[p] = "open_with_passphrase"

\* the EncryptedEnvelopeKey the meta store holds
StoredKey == Deser(db[MetaStore][PICKLE_KEY])
HasStoredKey == PICKLE_KEY \in DOMAIN db[MetaStore]

\* C23: on a store that holds an EncryptedEnvelopeKey, an open_with_passphrase
\* with a wrong passphrase fails, with UnpicklingError whenever the engine has
\* given it the stored key, and no step of it changes the stored key; an open with
\* the right passphrase, after any number of wrong attempts, returns the store
\* with the stored key unless the engine fails.
WrongPassphraseFails ==
    /\ [](\A p \in Procs :
            (Opening(p) /\ Done(p) /\ HasStoredKey)
                => IF arg[p] # StoredKey.passphrase
                   THEN \/ ret[p] = Err("UnpicklingError")
                        \/ ret[p] = Err("IndexedDatabase") /\ tmp[p] = None
                   ELSE ret[p] \in {Ok(StoredKey.key), Err("IndexedDatabase")})
    /\ [][\A p \in Procs :
            (Opening(p) /\ HasStoredKey /\ arg[p] # StoredKey.passphrase)
                => db' = db]_vars

\* the right passphrase has opened the store after two opens failed with
\* UnpicklingError
WrongPassphraseWitness ==
    \E p \in Procs :
        /\ Opening(p) /\ Succeeded(p)
        /\ input.unpickling = MaxAttempts
        /\ tx[p].writes = <<>>
        /\ arg[p] = StoredKey.passphrase
        /\ pickle_key = StoredKey.key

\* the envelope keys of the stores that open_with_passphrase has returned so far
Yielded ==
    input.yielded \cup {ret[p].val : p \in {q \in Procs : Opening(q) /\ Succeeded(q)}}

\* C24: envelope-key determinism: all successful opens of the name, over any
\* sequence of opens, yield one and the same envelope key, the key that is stored
\* encrypted; once an EncryptedEnvelopeKey is stored, no open stores another (it
\* is written at most once).
EnvelopeKeyDeterminism ==
    /\ [](/\ Cardinality(Yielded) <= 1
          /\ Yielded \subseteq (IF HasStoredKey THEN {StoredKey.key} ELSE {}))
    /\ [][HasStoredKey => db'[MetaStore] = db[MetaStore]]_vars

\* an open has recovered the stored key, without a write, after an earlier open
\* had generated and stored it
EnvelopeKeyWitness ==
    \E p \in Procs :
        /\ Opening(p) /\ Succeeded(p)
        /\ tx[p].writes = <<>>
        /\ input.yielded = {ret[p].val}
        /\ pickle_key = StoredKey.key

\* a is a proper prefix of b
ProperPrefix(a, b) == Len(a) < Len(b) /\ SubSeq(b, 1, Len(a)) = a

\* get_sessions has scanned the session store (the cache had nothing for the key)
Scanned(p) == op[p] = "get_sessions" /\ pc[p] = "get_sessions_set"

\* C25: the range scan of get_sessions for the sender key K returns no session
\* whose sender key is a proper string extension of K, neither from the scan
\* nor in the result of the call.
ScanExcludesExtensions ==
    \A p \in Procs :
        /\ Scanned(p)
            => \A i \in DOMAIN tmp[p] : ~ProperPrefix(arg[p], tmp[p][i].sender_key)
        /\ (Succeeded(p) /\ op[p] = "get_sessions" /\ IsSome(ret[p].val))
            => \A i \in DOMAIN ret[p].val[1].sessions :
                  ~ProperPrefix(arg[p], ret[p].val[1].sessions[i].sender_key)

\* the scan for "a" has returned its two sessions while the store holds decodable
\* sessions of "ab" and of "a+"
ScanExcludesWitness ==
    \E p \in Procs :
        /\ Scanned(p)
        /\ arg[p] = <<97>>
        /\ Len(tmp[p]) = 2
        /\ \A k \in {<<97, 98, 58, 49>>, <<97, 43, 58, 49>>} :
              /\ k \in DOMAIN db[SESSION]
              /\ CanDeser("pickle", db[SESSION][k])
              /\ CanUnpickle(Deser(db[SESSION][k]), pickle_key)

StartsWith(k, prefix) == Len(k) >= Len(prefix) /\ SubSeq(k, 1, Len(prefix)) = prefix

\* C26: the bound built for the prefix P is the half-open interval from P + ":"
\* to P + ";": it holds every key that starts with P + ":" (the key P + ":"
\* itself too) and it does not hold the key that is P + ";" exactly.
HalfOpenBound ==
    input.result # None
        => /\ StartsWith(input.key, input.prefix \o <<Colon>>) => input.result = Some(TRUE)
           /\ input.key = input.prefix \o <<Semi>> => input.result = Some(FALSE)

\* a get_secret_request_by_info call of p returns a request, or none, in the step
LookupReturns(p) ==
    /\ op'[p] = "get_secret_request_by_info"
    /\ pc[p] # "done"
    /\ pc'[p] = "done"
    /\ ret'[p].kind = "ok"

\* C27: an operation does all of its reads inside one transaction, so that its
\* result is read off one state of the database: what get_secret_request_by_info
\* returns is the lookup on the database as it was before the one save_changes
\* call of the other task committed, or the lookup on the database as it is now.
OneSnapshotLookup ==
    [][\A p \in Procs :
          LookupReturns(p)
            => ret'[p] \in {SecretRequestByInfo(StoredDb, arg'[p]),
                            SecretRequestByInfo(db, arg'[p])}]_vars

\* the object stores of the payloads that are to be encrypted
SecretStores ==
    {CORE, SESSION, INBOUND_GROUP_SESSIONS, OUTBOUND_GROUP_SESSIONS, DEVICES, IDENTITIES}

\* C28: encryption at rest: in every state of the database, every account,
\* private identity, session, group session, device and identity record that
\* save_changes has stored is a pickle encrypted under the key of the store;
\* none is stored in plain serialized form.
EncryptedAtRest ==
    \A store \in SecretStores :
        \A k \in DOMAIN db[store] :
            /\ db[store][k].type = "pickle"
            /\ db[store][k].json.key = pickle_key

\* C29: every call of the store interface ends with a result or with a typed
\* error it returns to its caller (the backup and group session listings too);
\* no call panics.
TypedResults == \A p \in Procs : Done(p) => ret[p].kind \in {"ok", "err"}

\* the records of a store that decode: the sessions of a sender key that are
\* pickled under the key of the store, and the JSON records of a type
DecodableSessions(sender_key) ==
    {s \in ScanSessions :
        /\ s.sender_key = sender_key
        /\ Join(s.sender_key, s.session_id) \in DOMAIN db[SESSION]
        /\ LET v == db[SESSION][Join(s.sender_key, s.session_id)] IN
           v.type = "pickle" /\ v.json.key = pickle_key /\ v.json.ct = s}
DecodableJson(store, type) ==
    {db[store][k].json : k \in {j \in DOMAIN db[store] : db[store][j].type = type}}

BulkRead(p) == op[p] \in {"get_sessions", "get_user_devices", "get_unsent_secret_requests"}

\* C30: bulk reads are lenient: get_sessions, get_user_devices and
\* get_unsent_secret_requests fail only when the engine fails, whatever the records
\* of the scanned range hold, and what they return is exactly the set of the
\* records that decode.
LenientBulkReads ==
    \A p \in Procs :
        (BulkRead(p) /\ Done(p))
            => /\ ret[p].kind = "err" => ret[p] = Err("IndexedDatabase")
               /\ (ret[p].kind = "ok" /\ op[p] = "get_sessions")
                    => {ret[p].val[1].sessions[i] : i \in DOMAIN ret[p].val[1].sessions}
                         = DecodableSessions(arg[p])
               /\ (ret[p].kind = "ok" /\ op[p] = "get_user_devices")
                    => {ret[p].val[d] : d \in DOMAIN ret[p].val}
                         = DecodableJson(DEVICES, "device")
               /\ (ret[p].kind = "ok" /\ op[p] = "get_unsent_secret_requests")
                    => {ret[p].val[i] : i \in DOMAIN ret[p].val}
                         = DecodableJson(UNSENT_SECRET_REQUESTS, "request")

\* get_sessions has returned the second session of "a", the first being stored as
\* a value that is no pickle, on a store that also holds a device and a request
\* that do not decode
LenientWitness ==
    \E p \in Procs :
        /\ Succeeded(p) /\ op[p] = "get_sessions" /\ arg[p] = <<97>>
        /\ <<97, 58, 49>> \in DOMAIN db[SESSION]
        /\ db[SESSION][<<97, 58, 49>>].type # "pickle"
        /\ Len(ret[p].val[1].sessions) = 1
        /\ ret[p].val[1].sessions[1].session_id = <<50>>
        /\ \E k \in DOMAIN db[DEVICES] : db[DEVICES][k].type # "device"
        /\ \E k \in DOMAIN db[UNSENT_SECRET_REQUESTS] :
              db[UNSENT_SECRET_REQUESTS][k].type # "request"

\* the store and the key a point read of p looks at
PointStore(p) ==
    CASE op[p] = "get_device" -> DEVICES
      [] op[p] = "get_user_identity" -> IDENTITIES
      [] OTHER -> INBOUND_GROUP_SESSIONS
PointKey(p) ==
    CASE op[p] = "get_device" -> Join(arg[p][1], arg[p][2])
      [] op[p] = "get_user_identity" -> arg[p]
      [] OTHER -> Join(Join(arg[p][1], arg[p][2]), arg[p][3])
\* the record under the key decodes: to a device, to an identity, or to a session
\* pickled under the key of the store
PointDecodes(p) ==
    LET v == db[PointStore(p)][PointKey(p)] IN
    CASE op[p] = "get_device" -> v.type = "device"
      [] op[p] = "get_user_identity" -> v.type = "identity"
      [] OTHER -> v.type = "pickle" /\ v.json.key = pickle_key
PointRead(p) == op[p] \in {"get_device", "get_user_identity", "get_inbound_group_session"}

\* C31: point reads are strict: a record under the key that does not decode makes
\* get_device, get_user_identity and get_inbound_group_session return an error;
\* they return absent only when there is no record under the key, the record
\* itself when it decodes, and they change neither the stores nor the caches.
StrictPointReads ==
    /\ [](\A p \in Procs :
            (PointRead(p) /\ Done(p)) =>
                IF PointKey(p) \notin DOMAIN db[PointStore(p)]
                THEN ret[p] \in {Ok(None), Err("IndexedDatabase")}
                ELSE IF ~PointDecodes(p)
                THEN ret[p].kind = "err"
                ELSE \/ ret[p] = Err("IndexedDatabase")
                     \/ /\ ret[p].kind = "ok" /\ IsSome(ret[p].val)
                        /\ Unwrap(ret[p].val) = db[PointStore(p)][PointKey(p)].json
                           \/ Unwrap(ret[p].val) = db[PointStore(p)][PointKey(p)].json.ct)
    /\ [][\A p \in Procs :
            (PointRead(p)' /\ Stepped(p)) => db' = db /\ memory' = memory]_vars

\* get_device has returned a serialization error for the device stored as a value
\* that is no device
StrictPointWitness ==
    \E p \in Procs :
        /\ Done(p) /\ op[p] = "get_device"
        /\ PointKey(p) \in DOMAIN db[DEVICES] /\ ~PointDecodes(p)
        /\ ret[p] = Err("Serialization")

HashKey(h) == Join(h.sender_key, h.hash)
Known(d, h) == HashKey(h) \in DOMAIN d[OLM_HASHES]

\* the transaction of the save_changes call of p commits in the step
CommitsNow(p) ==
    op[p] = "save_changes" /\ tx[p].state = "active" /\ tx'[p].state = "committed"

\* C32: the set of message hashes is presence-only and monotone: is_message_known
\* answers whether the hash is stored; a hash gets stored only by the commit of a
\* save_changes transaction whose message_hashes hold it, every save_changes that
\* succeeds stores its hashes, and no step, a reopen included, removes a hash.
MessageHashesMonotone ==
    [][\A h \in Hashes :
        /\ \A p \in Procs :
             (Idle(p) /\ op'[p] = "is_message_known" /\ arg'[p] = h)
                => ret'[p] \in {Ok(Known(db, h)), Err("IndexedDatabase")}
        /\ Known(db, h) => Known(db', h)
        /\ (~Known(db, h) /\ Known(db', h))
             => \E p \in Procs :
                  /\ CommitsNow(p)
                  /\ \E i \in DOMAIN arg[p].message_hashes : arg[p].message_hashes[i] = h
        /\ \A p \in Procs :
             (/\ CommitsNow(p)
              /\ ret'[p].kind # "err"
              /\ \E i \in DOMAIN arg[p].message_hashes : arg[p].message_hashes[i] = h)
                => Known(db', h)]_vars

\* after a reopen is_message_known has answered true for a hash that is stored, on
\* a store that does not hold the other hash
MessageHashesWitness ==
    \E p \in Procs :
        /\ Succeeded(p) /\ op[p] = "is_message_known"
        /\ ret[p] = Ok(TRUE)
        /\ IsSome(input)
        /\ \E h \in Hashes : ~Known(db, h)

\* the devices deleted by the last save_changes of the task, which returned Ok
DeletedByLastSave ==
    IF \E p \in Procs : Succeeded(p) /\ op[p] = "save_changes"
    THEN LET p == CHOOSE q \in Procs : Succeeded(q) /\ op[q] = "save_changes"
         IN  {arg[p].devices.deleted[i] : i \in DOMAIN arg[p].devices.deleted}
    ELSE IF input = None THEN {} ELSE input[1]

\* C33: after a save_changes that returned Ok and whose devices.deleted hold d,
\* the store has no record under the key of d, get_device of d returns absent and
\* get_user_devices of its user does not hold d, after a reopen too, and also
\* when the same changes list d under devices.new or devices.changed.
DeviceDeletion ==
    \A d \in DeletedByLastSave :
        /\ Join(d.user_id, d.device_id) \notin DOMAIN db[DEVICES]
        /\ \A p \in Procs :
            /\ (Done(p) /\ op[p] = "get_device" /\ arg[p] = <<d.user_id, d.device_id>>)
                 => ret[p] \in {Ok(None), Err("IndexedDatabase")}
            /\ (Succeeded(p) /\ op[p] = "get_user_devices" /\ arg[p] = d.user_id)
                 => \A i \in DOMAIN ret[p].val : ret[p].val[i] # d

\* after a save that put the device "D" and listed it as deleted, and a reopen,
\* get_user_devices has returned the other device of the user alone
DeviceDeletionWitness ==
    \E p \in Procs :
        /\ Succeeded(p) /\ op[p] = "get_user_devices"
        /\ IsSome(input) /\ input[1] = {TheDevice} /\ input[2]
        /\ Join(TheDevice.user_id, TheDevice.device_id) \in input[3]
        /\ DOMAIN ret[p].val = {<<69>>}

\* the event is there and its unsigned area holds the membership leave, under the
\* name or under the alias of the field, and under one of the two only
LeaveMembership(raw_event) ==
    /\ IsSome(raw_event)
    /\ Unwrap(raw_event).kind = "object"
    /\ \/ Unwrap(raw_event).membership = "leave" /\ Unwrap(raw_event).alias = "absent"
       \/ Unwrap(raw_event).membership = "absent" /\ Unwrap(raw_event).alias = "leave"

MissingKey(reason) == reason.name \in {"MissingMegolmSession", "UnknownMegolmMessageIndex"}

\* C34: determine gives SentBeforeWeJoined if and only if the reason is
\* MissingMegolmSession or UnknownMegolmMessageIndex and a raw event is supplied
\* whose unsigned area parses with the membership leave (under the name or the
\* alias); with one of the two reasons and anything else it gives Unknown.
SentBeforeWeJoinedIffLeave ==
    IsSome(input.cause) =>
        /\ Unwrap(input.cause) = "SentBeforeWeJoined"
             <=> (MissingKey(input.reason) /\ LeaveMembership(input.raw_event))
        /\ (MissingKey(input.reason) /\ ~LeaveMembership(input.raw_event))
             => Unwrap(input.cause) = "Unknown"

\* determine has given SentBeforeWeJoined for UnknownMegolmMessageIndex and an
\* event with the membership leave under the alias
SentBeforeWeJoinedWitness ==
    /\ input.cause = Some("SentBeforeWeJoined")
    /\ input.reason.name = "UnknownMegolmMessageIndex"
    /\ Unwrap(input.raw_event).alias = "leave"

\* C35: for every reason other than MissingMegolmSession and
\* UnknownMegolmMessageIndex the cause does not depend on the raw event:
\* SenderIdentityNotTrusted gives VerificationViolation, UnsignedDevice or
\* UnknownDevice for the levels VerificationViolation, UnsignedDevice and None(_),
\* and every other reason gives Unknown.
OtherReasonsIgnoreEvent ==
    (IsSome(input.cause) /\ ~MissingKey(input.reason)) =>
        Unwrap(input.cause) =
            CASE input.reason = [name |-> "SenderIdentityNotTrusted",
                                 level |-> "VerificationViolation"] -> "VerificationViolation"
              [] input.reason = [name |-> "SenderIdentityNotTrusted",
                                 level |-> "UnsignedDevice"] -> "UnsignedDevice"
              [] input.reason.name = "SenderIdentityNotTrusted"
                   /\ input.reason.level \in {"None(MissingDevice)", "None(InsecureSource)"}
                    -> "UnknownDevice"
              [] OTHER -> "Unknown"

\* determine has given Unknown for MalformedEncryptedEvent and an event with the
\* membership leave
OtherReasonsWitness ==
    /\ input.cause = Some("Unknown")
    /\ input.reason.name = "MalformedEncryptedEvent"
    /\ LeaveMembership(input.raw_event)

\* the requests whose last upsert that committed had sent_out false and that were
\* not deleted since
LastUnsent ==
    {Unwrap(input.last[id]) :
        id \in {i \in RequestIds : IsSome(input.last[i]) /\ ~Unwrap(input.last[i]).sent_out}}

\* C36: get_unsent_secret_requests returns exactly the requests whose last
\* committed upsert had sent_out false and that were not deleted since: a request
\* upserted with sent_out true or deleted by its id is never in the result.
UnsentExact ==
    \A p \in Procs :
        (Succeeded(p) /\ op[p] = "get_unsent_secret_requests")
            => {ret[p].val[i] : i \in DOMAIN ret[p].val} = LastUnsent

\* the listing has returned the one unsent request while the other id is stored
\* as sent
UnsentExactWitness ==
    \E p \in Procs :
        /\ Succeeded(p) /\ op[p] = "get_unsent_secret_requests"
        /\ Len(ret[p].val) = 1
        /\ Holds(OUTGOING_SECRET_REQUESTS, TheRequestId)
        /\ ret[p].val[1].request_id # TheRequestId

\* C37: the lookup by info is sound: whatever upserts and deletes came before, an
\* upsert of a stored id under another info included, get_secret_request_by_info
\* returns nothing or a stored request of the info asked for, and no error for an
\* info that has no entry.
LookupByInfoSound ==
    \A p \in Procs :
        (Done(p) /\ op[p] = "get_secret_request_by_info")
            => /\ ret[p].kind = "err" => ret[p] = Err("IndexedDatabase")
               /\ (ret[p].kind = "ok" /\ IsSome(ret[p].val))
                    => Unwrap(ret[p].val).info = arg[p]

\* the stored devices of a user
StoredDevicesOf(user_id) ==
    {v.json : v \in {db[DEVICES][k] : k \in DOMAIN db[DEVICES]} \cap
                    {Serde("device", d) : d \in {x \in ColonDevices : x.user_id = user_id}}}

\* C38: get_user_devices(u) returns exactly the stored devices whose user id is u,
\* never a device of another user, also for user ids and device ids that hold the
\* delimiter ':'.
UserDevicesExact ==
    \A p \in Procs :
        (Succeeded(p) /\ op[p] = "get_user_devices")
            => {ret[p].val[i] : i \in DOMAIN ret[p].val} = StoredDevicesOf(arg[p])

\* C39: read your writes for sessions: once a save_changes call that wrote the
\* session S of the sender key K has returned Ok, a get_sessions(K) call that
\* starts afterwards returns a collection that holds S, whatever get_sessions(K)
\* calls were in flight during the save.  Stated for the calls that start after
\* the return and are answered in their first step, from the cache.
ReadYourWrites ==
    [][\A p \in Procs :
        (Idle(p) /\ op'[p] = "get_sessions" /\ pc'[p] = "done" /\ ret'[p].kind = "ok")
            => \A s \in input :
                  s.sender_key = arg'[p] => Contains(Unwrap(ret'[p].val).sessions, s)]_vars

\* C40: the tracked-user caches agree with the tracked_users store: on a store
\* whose account was loaded, whenever no call is running, whatever
\* update_tracked_user calls succeeded or failed before, a user is in
\* tracked_users_cache if and only if the store has an entry for the user, and in
\* users_for_key_query_cache if and only if the stored flag is not false; a call
\* that fails leaves both sets as they were.
TrackedCacheAgrees ==
    (IsSome(account_info) /\ \A p \in Procs : Idle(p))
        => \A u \in Users :
              /\ u \in tracked_users_cache <=> u \in DOMAIN db[TRACKED_USERS]
              /\ u \in users_for_key_query_cache
                   <=> (u \in DOMAIN db[TRACKED_USERS] /\ DirtyFlag(db[TRACKED_USERS], u))

====
